---- MODULE Spec2Model ----
(***************************************************************************)
(* Shopmonkey appointment connector (Express server, v3 API variant).      *)
(*                                                                         *)
(* The remote Shopmonkey store (customers, vehicles, appointments) is the  *)
(* only state; every request handler is a process whose steps are the      *)
(* remote calls it awaits.  Instants are minutes since the Unix epoch      *)
(* (Date.getTime() / 60000); strings are sequences of one-character        *)
(* strings.                                                                *)
(***************************************************************************)
EXTENDS Integers, Sequences, FiniteSets, TLC

\* ------------------------------------------------------------------------
\* Bounds of the model
\* ------------------------------------------------------------------------
MaxAppts == 3
MaxCustomers == 2
MaxVehicles == 2
MaxRequests == 3

Procs == {1, 2}

\* ------------------------------------------------------------------------
\* Program constants
\* ------------------------------------------------------------------------
durationMinutes == 30
HoursWindow == 24
MinutesPerHour == 60
BookingSearchLimit == 100
SlotSearchLimit == 100
LocatorSearchLimit == 50
LOCATION_ID == "loc-main"
OTHER_LOCATION == "loc-other"

\* ------------------------------------------------------------------------
\* Strings
\* ------------------------------------------------------------------------
Digits == {"0", "1", "2", "3", "4", "5", "6", "7", "8", "9"}
UpperAlpha == <<"A", "B", "C", "D", "E", "F", "G", "H", "I", "J", "K", "L", "M",
                "N", "O", "P", "Q", "R", "S", "T", "U", "V", "W", "X", "Y", "Z">>
LowerAlpha == <<"a", "b", "c", "d", "e", "f", "g", "h", "i", "j", "k", "l", "m",
                "n", "o", "p", "q", "r", "s", "t", "u", "v", "w", "x", "y", "z">>

\* String.prototype.toLowerCase
toLowerCase(s) ==
    [i \in DOMAIN s |->
        IF \E k \in DOMAIN UpperAlpha : UpperAlpha[k] = s[i]
        THEN LowerAlpha[CHOOSE k \in DOMAIN UpperAlpha : UpperAlpha[k] = s[i]]
        ELSE s[i]]

\* String.prototype.trim
trim(s) ==
    IF \A i \in DOMAIN s : s[i] = " " THEN <<>>
    ELSE LET first == CHOOSE i \in DOMAIN s :
                          s[i] # " " /\ \A j \in 1..(i - 1) : s[j] = " "
             last == CHOOSE i \in DOMAIN s :
                          s[i] # " " /\ \A j \in (i + 1)..Len(s) : s[j] = " "
         IN SubSeq(s, first, last)

\* phone.replace(/\D/g, "")
digitsOnly(phone) == SelectSeq(phone, LAMBDA c : c \in Digits)

\* A missing (undefined / empty) request field is falsy.
Missing == <<>>

\* faulty variant: only white space is removed from the input
normalizeToE164_spacesOnly(phone) ==
    IF phone = Missing THEN <<>>
    ELSE LET d == SelectSeq(phone, LAMBDA c : c # " ")
         IN IF Len(d) = 10 THEN <<"+", "1">> \o d
            ELSE IF Len(d) = 11 /\ d[1] = "1" THEN <<"+">> \o d
            ELSE <<"+">> \o d

\* faulty variant: the country code is added unless eleven digits start
\* with it
normalizeToE164_alwaysCountryCode(phone) ==
    IF phone = Missing THEN <<>>
    ELSE LET d == digitsOnly(phone)
         IN IF Len(d) = 11 /\ d[1] = "1" THEN <<"+">> \o d
            ELSE <<"+", "1">> \o d

\* faulty variant: ten digits get no country code
normalizeToE164_noCountryCode(phone) ==
    IF phone = Missing THEN <<>>
    ELSE <<"+">> \o digitsOnly(phone)

normalizeToE164(phone) ==
    IF phone = Missing THEN <<>>
    ELSE LET d == digitsOnly(phone)
         IN IF Len(d) = 10 THEN <<"+", "1">> \o d
            ELSE IF Len(d) = 11 /\ d[1] = "1" THEN <<"+">> \o d
            ELSE IF trim(phone) # <<>> /\ trim(phone)[1] = "+" THEN <<"+">> \o d
            ELSE <<"+">> \o d

Min2(x, y) == IF x <= y THEN x ELSE y

RECURSIVE levCell(_, _, _, _)
\* matrix[i][j] of levenshteinDistance(a, b): i indexes b, j indexes a
levCell(a, b, i, j) ==
    IF i = 0 THEN j
    ELSE IF j = 0 THEN i
    ELSE IF b[i] = a[j] THEN levCell(a, b, i - 1, j - 1)
    ELSE Min2(levCell(a, b, i - 1, j - 1) + 1,
              Min2(levCell(a, b, i, j - 1) + 1,
                   levCell(a, b, i - 1, j) + 1))

levenshteinDistance(a, b) == levCell(a, b, Len(b), Len(a))

\* faulty variant: a string that is empty once trimmed counts as missing
isFuzzyMatch_emptyAfterTrim(str1, str2) ==
    IF trim(str1) = Missing \/ trim(str2) = Missing THEN FALSE
    ELSE LET s1 == trim(toLowerCase(str1))
             s2 == trim(toLowerCase(str2))
         IN IF s1 = s2 THEN TRUE
            ELSE levenshteinDistance(s1, s2) <= Min2(Len(s1), Len(s2)) \div 3

\* faulty variant: the edits allowed follow the longer string
isFuzzyMatch_longerString(str1, str2) ==
    IF str1 = Missing \/ str2 = Missing THEN FALSE
    ELSE LET s1 == trim(toLowerCase(str1))
             s2 == trim(toLowerCase(str2))
         IN IF s1 = s2 THEN TRUE
            ELSE levenshteinDistance(s1, s2)
                 <= (IF Len(s1) >= Len(s2) THEN Len(s1) ELSE Len(s2)) \div 3

isFuzzyMatch(str1, str2) ==
    IF str1 = Missing \/ str2 = Missing THEN FALSE
    ELSE LET s1 == trim(toLowerCase(str1))
             s2 == trim(toLowerCase(str2))
         IN IF s1 = s2 THEN TRUE
            ELSE levenshteinDistance(s1, s2) <= Min2(Len(s1), Len(s2)) \div 3

\* name.split(" "): first token and the remaining tokens joined by " "
splitName(name) ==
    LET spaces == {i \in DOMAIN name : name[i] = " "}
        cut == IF spaces = {} THEN Len(name) + 1
               ELSE CHOOSE i \in spaces : \A j \in spaces : i <= j
        first == SubSeq(name, 1, cut - 1)
        rest == SubSeq(name, cut + 1, Len(name))
    IN [firstName |-> IF first = <<>> THEN <<"N", "/", "A">> ELSE first,
        lastName |-> rest]

\* ------------------------------------------------------------------------
\* Dates
\* ------------------------------------------------------------------------
\* new Date(x).getTime() of an unparseable string
NaN == -1
\* a request field that is absent
NoDate == -2
\* a request field holding a string that is no date
BadDate == -3

\* new Date(dateString)
parseDate(d) == IF d >= 0 THEN d ELSE NaN
isNaN(t) == t = NaN

MinutesPerDay == 24 * MinutesPerHour
\* 2025-11-25T18:00Z, 10:00 in the shop (Tuesday, standard time)
T1000 == 20417 * MinutesPerDay + 18 * MinutesPerHour
\* 2025-11-29T18:00Z, 10:00 in the shop (Saturday)
TSat1000 == 20421 * MinutesPerDay + 18 * MinutesPerHour

Times == {T1000, T1000 + 15, T1000 + 30}

windowMinutes == HoursWindow * MinutesPerHour

\* faulty variant: closed intervals, so that back-to-back appointments collide
isOverlapping_closed(apptStart, apptEnd, start, end) == apptStart <= end /\ apptEnd >= start

\* faulty variant: only an appointment that starts inside the slot overlaps it
isOverlapping_startInside(apptStart, apptEnd, start, end) ==
    apptStart >= start /\ apptStart < end

\* Overlap logic: (StartA < EndB) and (EndA > StartB)
isOverlapping(apptStart, apptEnd, start, end) == apptStart < end /\ apptEnd > start

\* ------------------------------------------------------------------------
\* Request inputs
\* ------------------------------------------------------------------------
PhoneA == <<"5", "5", "5", "1", "2", "3", "4", "5", "6", "7">>
PhoneAFormatted == <<"1", " ", "(", "5", "5", "5", ")", " ", "1", "2", "3", "-", "4", "5", "6", "7">>
PhoneB == <<"5", "5", "5", "9", "8", "7", "6", "5", "4", "3">>
PhoneInputs == {PhoneA, PhoneAFormatted, PhoneB}

Toyota == <<"T", "o", "y", "o", "t", "a">>
Camry == <<"C", "a", "m", "r", "y">>
Camary == <<"C", "a", "m", "a", "r", "y">>
Civic == <<"C", "i", "v", "i", "c">>
JohnDoe == <<"J", "o", "h", "n", " ", "D", "o", "e">>
OilChange == <<"O", "i", "l">>
MakeInputs == {Toyota}
ModelInputs == {Camry}
NameInputs == {JohnDoe}
TitleInputs == {OilChange}

\* ------------------------------------------------------------------------
\* State
\* ------------------------------------------------------------------------
VARIABLES
    customers,  \* remote store: customer id -> record (ids are 1..Len)
    vehicles,   \* remote store: vehicle id -> record
    appts,      \* remote store: appointment id -> record
    proc,       \* per request handler: position, inputs, locals, response
    started     \* number of requests started (bounds interleaved runs)

vars == <<customers, vehicles, appts, proc, started>>
store == <<customers, vehicles, appts>>

Idle ==
    [pc |-> "idle", op |-> "none", phone |-> Missing, name |-> Missing,
     make |-> Missing, model |-> Missing, title |-> Missing,
     startDate |-> NoDate, originalDate |-> NoDate, newDate |-> NoDate,
     startRange |-> NoDate, endRange |-> NoDate, now |-> NoDate,
     customerId |-> 0, vehicleId |-> 0, apptId |-> 0, orderId |-> 0,
     pending |-> {}, customerCreated |-> FALSE, vehicleCreated |-> FALSE,
     code |-> 0, outcome |-> "none", slots |-> <<>>, year |-> 0,
     error |-> [status |-> -1, message |-> "none"], message |-> "none",
     result |-> <<>>, visited |-> 0]

\* res.status(code).json(...): the handler's response
respond(r, code, outcome) == [r EXCEPT !.pc = "done", !.code = code, !.outcome = outcome]

\* Centralized error handling middleware: remoteStatus 0 is an error without
\* a response (network failure, thrown exception)
errorStatus(remoteStatus) ==
    IF remoteStatus = 0 THEN 500
    ELSE IF remoteStatus = 403 THEN 500
    ELSE remoteStatus

RemoteErrorStatuses == {0, 403, 500}

\* no error has been caught by the handler
NoError == [status |-> -1, message |-> "none"]

\* an error of a remote call as the handler catches it: error.response.status
\* (0 without a response) and error.response.data.message, or error.message
\* without a response ("" when the body carries no message)
remoteError(remoteStatus) ==
    [status |-> remoteStatus,
     message |-> IF remoteStatus = 0 THEN "connect ECONNREFUSED"
                 ELSE IF remoteStatus = 403 THEN "Forbidden: invalid token"
                 ELSE "remote message"]
RemoteErrors == {remoteError(remoteStatus) : remoteStatus \in RemoteErrorStatuses}

\* remote errors of every kind, with and without a message in the body
AllRemoteErrors ==
    RemoteErrors \cup
    [status : {400, 403, 404, 409, 500}, message : {"", "remote message"}]

\* Centralized error handling middleware: status and message of the response
errorResponse(error) ==
    LET statusCode == IF error.status = 0 THEN 500 ELSE error.status
    IN IF statusCode = 403
       THEN [code |-> 500,
             message |-> "API Authorization Forbidden. Check your API Key."]
       ELSE [code |-> statusCode,
             message |-> IF error.message = ""
                         THEN "An internal server error occurred."
                         ELSE error.message]

\* catch (error) { return next(error); }
fail(r, error) ==
    [respond(r, errorResponse(error).code, "RemoteFailure")
        EXCEPT !.error = error, !.message = errorResponse(error).message]

\* ------------------------------------------------------------------------
\* Remote store queries
\* ------------------------------------------------------------------------
\* the first `limit` results of a search, in an order the remote chooses
RECURSIVE dropping(_, _)
dropping(matches, k) ==
    IF k = 0 THEN {matches}
    ELSE UNION {dropping(matches \ {x}, k - 1) : x \in matches}

Pages(matches, limit) ==
    IF Cardinality(matches) <= limit THEN {matches}
    ELSE dropping(matches, Cardinality(matches) - limit)

\* POST /customer/phone_number/search
customersByPhone(e164Phone) ==
    {c \in DOMAIN customers : customers[c].phone = e164Phone}

\* faulty variant: a single search result is taken for none
findCustomerByPhone_offByOne(phone) ==
    LET found == customersByPhone(normalizeToE164(phone))
    IN IF Cardinality(found) <= 1 THEN {0} ELSE found

\* findCustomerByPhone: searchResponse.data.data[0], or null (0)
findCustomerByPhone(phone) ==
    LET found == customersByPhone(normalizeToE164(phone))
    IN IF found = {} THEN {0} ELSE found

\* faulty variant: the search does not filter on status
appointmentsInWindow_withCanceled(lo, hi) ==
    {a \in DOMAIN appts :
        /\ appts[a].locationId = LOCATION_ID
        /\ appts[a].startDate >= lo
        /\ appts[a].startDate <= hi
        /\ appts[a].status # "Deleted"}

\* faulty variant: the search begins at the candidate start
appointmentsInWindow_fromStart(lo, hi) ==
    {a \in DOMAIN appts :
        /\ appts[a].locationId = LOCATION_ID
        /\ appts[a].startDate >= lo + windowMinutes
        /\ appts[a].startDate <= hi
        /\ appts[a].status \notin {"Canceled", "Deleted"}}

\* POST /appointment/search of /booking and checkSlotAvailability
appointmentsInWindow(lo, hi) ==
    {a \in DOMAIN appts :
        /\ appts[a].locationId = LOCATION_ID
        /\ appts[a].startDate >= lo
        /\ appts[a].startDate <= hi
        /\ appts[a].status \notin {"Canceled", "Deleted"}}

\* faulty variant: the search does not filter on status
appointmentsOfCustomer_anyStatus(customerId) ==
    {a \in DOMAIN appts :
        /\ appts[a].customerId = customerId
        /\ appts[a].status # "Deleted"}

\* POST /appointment/search of findAppointmentByDate
appointmentsOfCustomer(customerId) ==
    {a \in DOMAIN appts :
        /\ appts[a].customerId = customerId
        /\ appts[a].status \notin {"Canceled", "Deleted"}}

\* GET /customer/:id/vehicle
vehiclesOfCustomer(customerId) ==
    {v \in DOMAIN vehicles : vehicles[v].customerId = customerId}

\* faulty variant: only an appointment with the same start counts as a conflict
conflictingAppointment_sameStartOnly(page, start, end) ==
    {a \in page : appts[a].startDate = start}

\* In-memory overlap check of /booking over the fetched page
conflictingAppointment(page, start, end) ==
    {a \in page : isOverlapping(appts[a].startDate, appts[a].endDate, start, end)}

\* faulty variant: the appointment being moved is not excluded
slotConflicts_noExclusion(page, start, end, excludeAppointmentId) ==
    {a \in page : isOverlapping(appts[a].startDate, appts[a].endDate, start, end)}

\* checkSlotAvailability(start, end, excludeAppointmentId): the page's conflicts
slotConflicts(page, start, end, excludeAppointmentId) ==
    {a \in page :
        /\ ~(excludeAppointmentId # 0 /\ a = excludeAppointmentId)
        /\ isOverlapping(appts[a].startDate, appts[a].endDate, start, end)}

\* faulty variant: make and model are compared for equality
matchingVehicles_exact(customerId, make, model) ==
    {v \in vehiclesOfCustomer(customerId) :
        /\ trim(toLowerCase(vehicles[v].make)) = trim(toLowerCase(make))
        /\ trim(toLowerCase(vehicles[v].model)) = trim(toLowerCase(model))}

\* findOrCreateVehicle: vehicles.find(makeMatch && modelMatch)
matchingVehicles(customerId, make, model) ==
    {v \in vehiclesOfCustomer(customerId) :
        isFuzzyMatch(vehicles[v].make, make) /\ isFuzzyMatch(vehicles[v].model, model)}

\* appointmentTitle of /booking
appointmentTitle(customerData, vehicleData, title) ==
    customerData.firstName \o <<" ">>
    \o (IF customerData.lastName # <<>> THEN <<customerData.lastName[1], ".">> ELSE <<>>)
    \o <<" ", "/", " ">> \o trim(vehicleData.make \o <<" ">> \o vehicleData.model)
    \o <<" ", "/", " ">> \o title

\* ------------------------------------------------------------------------
\* Initial remote stores
\* ------------------------------------------------------------------------
AnnLee == <<"A", "n", "n", " ", "L", "e", "e">>
CustomerA == [phone |-> normalizeToE164(PhoneA),
              firstName |-> splitName(AnnLee).firstName,
              lastName |-> splitName(AnnLee).lastName]
VehicleA == [customerId |-> 1, make |-> Toyota, model |-> Camry, size |-> "Midsize"]

apptOf(locationId, start, end, status) ==
    [customerId |-> 1, vehicleId |-> 1, locationId |-> locationId,
     name |-> appointmentTitle(CustomerA, VehicleA, OilChange),
     startDate |-> start, endDate |-> end, status |-> status]

storeWith(seqOfAppts) ==
    [customers |-> <<CustomerA>>, vehicles |-> <<VehicleA>>, appts |-> seqOfAppts]

InitStores ==
    { [customers |-> <<>>, vehicles |-> <<>>, appts |-> <<>>],
      storeWith(<<apptOf(LOCATION_ID, T1000, T1000 + durationMinutes, "Scheduled")>>),
      storeWith(<<apptOf(LOCATION_ID, T1000 + 30, T1000 + 30 + durationMinutes, "Confirmed")>>),
      storeWith(<<apptOf(LOCATION_ID, T1000, T1000 + durationMinutes, "Canceled")>>),
      storeWith(<<apptOf(OTHER_LOCATION, T1000, T1000 + durationMinutes, "Scheduled")>>),
      \* an appointment made outside the connector, longer than a day
      storeWith(<<apptOf(LOCATION_ID, T1000 - windowMinutes - 15,
                         T1000 + durationMinutes, "Scheduled")>>) }

Init ==
    /\ \E s \in InitStores :
          /\ customers = s.customers
          /\ vehicles = s.vehicles
          /\ appts = s.appts
    /\ proc = [p \in Procs |-> Idle]
    /\ started = 0

\* ------------------------------------------------------------------------
\* Requests
\* ------------------------------------------------------------------------
\* The requests a specification draws from: u.phones and u.dates are the
\* well-formed values, u.malformed adds unparseable dates and missing
\* fields, u.counted makes the request count against MaxRequests.
DateInputs(u) == u.dates \cup (IF u.malformed THEN {BadDate} ELSE {})

\* the example request of curl_commands.md with one required field left out
BookingExample ==
    [phone |-> PhoneA, make |-> Toyota, model |-> Camry, title |-> OilChange,
     startDate |-> T1000, name |-> JohnDoe]
BookingFieldMissing ==
    { [BookingExample EXCEPT !.phone = Missing], [BookingExample EXCEPT !.make = Missing],
      [BookingExample EXCEPT !.model = Missing], [BookingExample EXCEPT !.title = Missing],
      [BookingExample EXCEPT !.startDate = NoDate], [BookingExample EXCEPT !.name = Missing] }

BookingInputs(u) ==
    [phone : u.phones, make : MakeInputs, model : u.models,
     title : TitleInputs, startDate : DateInputs(u), name : NameInputs]
    \cup (IF u.malformed THEN BookingFieldMissing ELSE {})

CancelInputs(u) ==
    [phone : u.phones, originalDate : DateInputs(u)]
    \cup (IF u.malformed THEN {[phone |-> Missing, originalDate |-> T1000]} ELSE {})

UpdateInputs(u) ==
    [phone : u.phones, originalDate : DateInputs(u), newDate : DateInputs(u)]
    \cup (IF u.malformed
          THEN {[phone |-> PhoneA, originalDate |-> T1000, newDate |-> NoDate]}
          ELSE {})

VerifyInputs(u) ==
    [phone : u.phones, make : MakeInputs, model : {Camary},
     originalDate : DateInputs(u)]
    \cup (IF u.malformed
          THEN {[phone |-> PhoneA, make |-> Missing, model |-> Camry,
                 originalDate |-> T1000]}
          ELSE {})

SlotRangeInputs(u) ==
    u.ranges \cup (IF u.malformed THEN {BadDate, NoDate} ELSE {})

canStart(p, u) ==
    /\ proc[p].pc = "idle"
    /\ u.counted => started < MaxRequests

count(u) == started' = IF u.counted THEN started + 1 ELSE started

\* faulty variant: startDate is not checked for being a date
StartBooking_noDateCheck(p, u) ==
    /\ canStart(p, u)
    /\ \E in \in BookingInputs(u) :
          LET r == [Idle EXCEPT !.op = "booking", !.phone = in.phone, !.make = in.make,
                                !.model = in.model, !.title = in.title,
                                !.startDate = in.startDate, !.name = in.name]
          IN proc' = [proc EXCEPT ![p] =
                 IF \/ in.phone = Missing \/ in.make = Missing \/ in.model = Missing
                    \/ in.title = Missing \/ in.startDate = NoDate \/ in.name = Missing
                 THEN respond(r, 400, "InvalidInput")
                 ELSE [r EXCEPT !.pc = "bk_search"]]
    /\ count(u)
    /\ UNCHANGED store

\* POST /booking: field and date validation
\* faulty variant: a start off the half-hour grid is refused
StartBooking_gridOnly(p, u) ==
    /\ canStart(p, u)
    /\ \E in \in BookingInputs(u) :
          LET r == [Idle EXCEPT !.op = "booking", !.phone = in.phone, !.make = in.make,
                                !.model = in.model, !.title = in.title,
                                !.startDate = in.startDate, !.name = in.name]
          IN proc' = [proc EXCEPT ![p] =
                 IF \/ in.phone = Missing \/ in.make = Missing \/ in.model = Missing
                    \/ in.title = Missing \/ in.startDate = NoDate \/ in.name = Missing
                 THEN respond(r, 400, "InvalidInput")
                 ELSE IF isNaN(parseDate(in.startDate))
                 THEN respond(r, 400, "InvalidInput")
                 ELSE IF parseDate(in.startDate) % 30 # 0
                 THEN respond(r, 400, "InvalidInput")
                 ELSE [r EXCEPT !.pc = "bk_search"]]
    /\ count(u)
    /\ UNCHANGED store

StartBooking(p, u) ==
    /\ canStart(p, u)
    /\ \E in \in BookingInputs(u) :
          LET r == [Idle EXCEPT !.op = "booking", !.phone = in.phone, !.make = in.make,
                                !.model = in.model, !.title = in.title,
                                !.startDate = in.startDate, !.name = in.name]
          IN proc' = [proc EXCEPT ![p] =
                 IF \/ in.phone = Missing \/ in.make = Missing \/ in.model = Missing
                    \/ in.title = Missing \/ in.startDate = NoDate \/ in.name = Missing
                 THEN respond(r, 400, "InvalidInput")
                 ELSE IF isNaN(parseDate(in.startDate))
                 THEN respond(r, 400, "InvalidInput")
                 ELSE [r EXCEPT !.pc = "bk_search"]]
    /\ count(u)
    /\ UNCHANGED store

\* faulty variant: the customer is created before the overlap check
BookingSearch_customerFirst(p) ==
    /\ proc[p].pc = "bk_search"
    /\ customers' =
          IF customersByPhone(normalizeToE164(proc[p].phone)) = {}
             /\ Len(customers) < MaxCustomers
          THEN Append(customers,
                      [phone |-> normalizeToE164(proc[p].phone),
                       firstName |-> splitName(proc[p].name).firstName,
                       lastName |-> splitName(proc[p].name).lastName])
          ELSE customers
    /\ LET start == parseDate(proc[p].startDate)
           end == start + durationMinutes
       IN \E page \in Pages(appointmentsInWindow(start - windowMinutes,
                                                 start + windowMinutes),
                            BookingSearchLimit) :
             proc' = [proc EXCEPT ![p] =
                 IF conflictingAppointment(page, start, end) # {}
                 THEN respond(@, 409, "Conflict")
                 ELSE [@ EXCEPT !.pc = "bk_findCustomer"]]
    /\ UNCHANGED <<vehicles, appts, started>>

\* POST /booking: appointment search and in-memory overlap check
BookingSearch(p) ==
    /\ proc[p].pc = "bk_search"
    /\ LET start == parseDate(proc[p].startDate)
           end == start + durationMinutes
       IN \E page \in Pages(appointmentsInWindow(start - windowMinutes,
                                                 start + windowMinutes),
                            BookingSearchLimit) :
             proc' = [proc EXCEPT ![p] =
                 IF conflictingAppointment(page, start, end) # {}
                 THEN respond(@, 409, "Conflict")
                 ELSE [@ EXCEPT !.pc = "bk_findCustomer"]]
    /\ UNCHANGED <<store, started>>

\* findOrCreateCustomer: findCustomerByPhone
BookingFindCustomer(p) ==
    /\ proc[p].pc = "bk_findCustomer"
    /\ \E existingCustomer \in findCustomerByPhone(proc[p].phone) :
          proc' = [proc EXCEPT ![p] =
              IF existingCustomer # 0
              THEN [@ EXCEPT !.customerId = existingCustomer,
                             !.customerCreated = FALSE, !.pc = "bk_listVehicles"]
              ELSE [@ EXCEPT !.pc = "bk_createCustomer"]]
    /\ UNCHANGED <<store, started>>

\* faulty variant: the create step looks for the customer again and reuses it
BookingCreateCustomer_guarded(p) ==
    /\ proc[p].pc = "bk_createCustomer"
    /\ IF customersByPhone(normalizeToE164(proc[p].phone)) # {}
       THEN /\ \E c \in customersByPhone(normalizeToE164(proc[p].phone)) :
                  proc' = [proc EXCEPT ![p] = [@ EXCEPT !.customerId = c,
                                                       !.pc = "bk_listVehicles"]]
            /\ UNCHANGED customers
       ELSE /\ Len(customers) < MaxCustomers
            /\ customers' = Append(customers,
                    [phone |-> normalizeToE164(proc[p].phone),
                     firstName |-> splitName(proc[p].name).firstName,
                     lastName |-> splitName(proc[p].name).lastName])
            /\ proc' = [proc EXCEPT ![p] = [@ EXCEPT !.customerId = Len(customers) + 1,
                                                     !.customerCreated = TRUE,
                                                     !.pc = "bk_listVehicles"]]
    /\ UNCHANGED <<vehicles, appts, started>>

\* findOrCreateCustomer: POST /customer
BookingCreateCustomer(p) ==
    /\ proc[p].pc = "bk_createCustomer"
    /\ Len(customers) < MaxCustomers
    /\ customers' = Append(customers,
            [phone |-> normalizeToE164(proc[p].phone),
             firstName |-> splitName(proc[p].name).firstName,
             lastName |-> splitName(proc[p].name).lastName])
    /\ proc' = [proc EXCEPT ![p] = [@ EXCEPT !.customerId = Len(customers) + 1,
                                             !.customerCreated = TRUE,
                                             !.pc = "bk_listVehicles"]]
    /\ UNCHANGED <<vehicles, appts, started>>

\* findOrCreateVehicle: GET /customer/:id/vehicle and fuzzy search
BookingListVehicles(p) ==
    /\ proc[p].pc = "bk_listVehicles"
    /\ LET found == matchingVehicles(proc[p].customerId, proc[p].make, proc[p].model)
       IN IF found # {}
          THEN \E existingVehicle \in found :
                  proc' = [proc EXCEPT ![p] = [@ EXCEPT !.vehicleId = existingVehicle,
                                                        !.vehicleCreated = FALSE,
                                                        !.pc = "bk_createAppt"]]
          ELSE proc' = [proc EXCEPT ![p] = [@ EXCEPT !.pc = "bk_createVehicle"]]
    /\ UNCHANGED <<store, started>>

\* findOrCreateVehicle: POST /vehicle
BookingCreateVehicle(p) ==
    /\ proc[p].pc = "bk_createVehicle"
    /\ Len(vehicles) < MaxVehicles
    /\ vehicles' = Append(vehicles,
            [customerId |-> proc[p].customerId, make |-> proc[p].make,
             model |-> proc[p].model, size |-> "LightDuty"])
    /\ proc' = [proc EXCEPT ![p] = [@ EXCEPT !.vehicleId = Len(vehicles) + 1,
                                             !.vehicleCreated = TRUE,
                                             !.pc = "bk_createAppt"]]
    /\ UNCHANGED <<customers, appts, started>>

\* faulty variant: the create replaces the appointments it overlaps (last write wins)
BookingCreateAppointment_replacing(p) ==
    /\ proc[p].pc = "bk_createAppt"
    /\ Len(appts) < MaxAppts
    /\ LET start == parseDate(proc[p].startDate)
           end == start + durationMinutes
           kept == [a \in DOMAIN appts |->
                       IF /\ appts[a].status # "Deleted"
                          /\ appts[a].locationId = LOCATION_ID
                          /\ isOverlapping(appts[a].startDate, appts[a].endDate, start, end)
                       THEN [appts[a] EXCEPT !.status = "Canceled"]
                       ELSE appts[a]]
       IN appts' = Append(kept,
            [customerId |-> proc[p].customerId, vehicleId |-> proc[p].vehicleId,
             locationId |-> LOCATION_ID,
             name |-> appointmentTitle(customers[proc[p].customerId],
                                       vehicles[proc[p].vehicleId], proc[p].title),
             startDate |-> start, endDate |-> end, status |-> "Scheduled"])
    /\ proc' = [proc EXCEPT ![p] = respond([@ EXCEPT !.apptId = Len(appts) + 1],
                                           201, "ok")]
    /\ UNCHANGED <<customers, vehicles, started>>

\* faulty variant: the appointment is created an hour long
BookingCreateAppointment_hourLong(p) ==
    /\ proc[p].pc = "bk_createAppt"
    /\ Len(appts) < MaxAppts
    /\ LET start == parseDate(proc[p].startDate)
           end == start + 2 * durationMinutes
       IN appts' = Append(appts,
            [customerId |-> proc[p].customerId, vehicleId |-> proc[p].vehicleId,
             locationId |-> LOCATION_ID,
             name |-> appointmentTitle(customers[proc[p].customerId],
                                       vehicles[proc[p].vehicleId], proc[p].title),
             startDate |-> start, endDate |-> end, status |-> "Scheduled"])
    /\ proc' = [proc EXCEPT ![p] = respond([@ EXCEPT !.apptId = Len(appts) + 1],
                                           201, "ok")]
    /\ UNCHANGED <<customers, vehicles, started>>

\* POST /booking: POST /appointment and the 201 response
BookingCreateAppointment(p) ==
    /\ proc[p].pc = "bk_createAppt"
    /\ Len(appts) < MaxAppts
    /\ LET start == parseDate(proc[p].startDate)
           end == start + durationMinutes
       IN appts' = Append(appts,
            [customerId |-> proc[p].customerId, vehicleId |-> proc[p].vehicleId,
             locationId |-> LOCATION_ID,
             name |-> appointmentTitle(customers[proc[p].customerId],
                                       vehicles[proc[p].vehicleId], proc[p].title),
             startDate |-> start, endDate |-> end, status |-> "Scheduled"])
    /\ proc' = [proc EXCEPT ![p] = respond([@ EXCEPT !.apptId = Len(appts) + 1],
                                           201, "ok")]
    /\ UNCHANGED <<customers, vehicles, started>>

\* POST /cancel-appointment: field validation
StartCancel(p, u) ==
    /\ canStart(p, u)
    /\ \E in \in CancelInputs(u) :
          LET r == [Idle EXCEPT !.op = "cancel", !.phone = in.phone,
                                !.originalDate = in.originalDate]
          IN proc' = [proc EXCEPT ![p] =
                 IF in.phone = Missing \/ in.originalDate = NoDate
                 THEN respond(r, 400, "InvalidInput")
                 ELSE [r EXCEPT !.pc = "findCustomer"]]
    /\ count(u)
    /\ UNCHANGED store

\* POST /update-appointment: field validation
StartUpdate(p, u) ==
    /\ canStart(p, u)
    /\ \E in \in UpdateInputs(u) :
          LET r == [Idle EXCEPT !.op = "update", !.phone = in.phone,
                                !.originalDate = in.originalDate,
                                !.newDate = in.newDate]
          IN proc' = [proc EXCEPT ![p] =
                 IF in.phone = Missing \/ in.originalDate = NoDate \/ in.newDate = NoDate
                 THEN respond(r, 400, "InvalidInput")
                 ELSE [r EXCEPT !.pc = "findCustomer"]]
    /\ count(u)
    /\ UNCHANGED store

\* POST /verify-appointment: field validation
StartVerify(p, u) ==
    /\ canStart(p, u)
    /\ \E in \in VerifyInputs(u) :
          LET r == [Idle EXCEPT !.op = "verify", !.phone = in.phone, !.make = in.make,
                                !.model = in.model, !.originalDate = in.originalDate]
          IN proc' = [proc EXCEPT ![p] =
                 IF \/ in.phone = Missing \/ in.make = Missing \/ in.model = Missing
                    \/ in.originalDate = NoDate
                 THEN respond(r, 400, "InvalidInput")
                 ELSE [r EXCEPT !.pc = "findCustomer"]]
    /\ count(u)
    /\ UNCHANGED store

\* verify / cancel / update: const customer = await findCustomerByPhone(phone)
FindCustomer(p) ==
    /\ proc[p].pc = "findCustomer"
    /\ \E customer \in findCustomerByPhone(proc[p].phone) :
          proc' = [proc EXCEPT ![p] =
              IF customer = 0
              THEN respond(@, 404, "NotFound")
              ELSE [@ EXCEPT !.customerId = customer, !.pc = "findAppt"]]
    /\ UNCHANGED <<store, started>>

\* faulty variant: without an exact match any appointment of the customer is
\* returned
findAppointmentByDate_anyOnMiss(page, targetDate) ==
    IF page = {} THEN {0}
    ELSE IF isNaN(targetDate) THEN {-1}
    ELSE LET hits == {a \in page : appts[a].startDate = targetDate}
         IN IF hits = {} THEN page ELSE hits

\* findAppointmentByDate over one fetched page: the appointments it can
\* return; 0 is undefined, -1 is the RangeError of toISOString() on an
\* invalid targetDate (raised when the first element is compared)
findAppointmentByDate(page, targetDate) ==
    IF page = {} THEN {0}
    ELSE IF isNaN(targetDate) THEN {-1}
    ELSE LET hits == {a \in page : appts[a].startDate = targetDate}
         IN IF hits = {} THEN {0} ELSE hits

\* what follows a located appointment in each handler
afterFindAppt(r, appointment) ==
    IF r.op = "cancel" THEN [r EXCEPT !.apptId = appointment, !.pc = "cn_delete"]
    ELSE IF r.op = "verify"
    THEN [r EXCEPT !.apptId = appointment, !.vehicleId = appts[appointment].vehicleId,
                   !.pc = "vf_getVehicle"]
    ELSE IF isNaN(parseDate(r.newDate))
    THEN respond([r EXCEPT !.apptId = appointment], 400, "InvalidInput")
    ELSE [r EXCEPT !.apptId = appointment, !.pc = "up_check"]

\* verify / cancel / update: await findAppointmentByDate(customer.id, originalDate)
FindAppointment(p) ==
    /\ proc[p].pc = "findAppt"
    /\ \E page \in Pages(appointmentsOfCustomer(proc[p].customerId), LocatorSearchLimit) :
       \E appointment \in findAppointmentByDate(page, parseDate(proc[p].originalDate)) :
          proc' = [proc EXCEPT ![p] =
              IF appointment = -1 THEN respond(@, errorStatus(0), "LocalError")
              ELSE IF appointment = 0 THEN respond(@, 404, "NotFound")
              ELSE afterFindAppt(@, appointment)]
    /\ UNCHANGED <<store, started>>

\* what the store keeps of a deleted appointment: its id is never reused
DeletedAppointment ==
    [customerId |-> 0, vehicleId |-> 0, locationId |-> "none", name |-> <<>>,
     startDate |-> NoDate, endDate |-> NoDate, status |-> "Deleted"]

\* DELETE or PUT of an appointment that is already deleted: the remote
\* either answers 404 or accepts the call without effect
GoneAnswers == {200, 404}
gone(r, answer) ==
    IF answer = 200 THEN respond(r, 200, "ok")
    ELSE fail(r, [status |-> 404, message |-> "remote message"])

\* POST /cancel-appointment: DELETE /appointment/:id
CancelDelete(p) ==
    /\ proc[p].pc = "cn_delete"
    /\ IF appts[proc[p].apptId].status = "Deleted"
       THEN /\ \E answer \in GoneAnswers : proc' = [proc EXCEPT ![p] = gone(@, answer)]
            /\ UNCHANGED appts
       ELSE /\ appts' = [appts EXCEPT ![proc[p].apptId] = DeletedAppointment]
            /\ proc' = [proc EXCEPT ![p] = respond(@, 200, "ok")]
    /\ UNCHANGED <<customers, vehicles, started>>

\* POST /update-appointment: checkSlotAvailability(start, end, appointment.id)
UpdateCheck(p) ==
    /\ proc[p].pc = "up_check"
    /\ LET start == parseDate(proc[p].newDate)
           end == start + durationMinutes
       IN \E page \in Pages(appointmentsInWindow(start - windowMinutes,
                                                 start + windowMinutes),
                            BookingSearchLimit) :
             proc' = [proc EXCEPT ![p] =
                 IF slotConflicts(page, start, end, proc[p].apptId) # {}
                 THEN respond(@, 409, "Conflict")
                 ELSE [@ EXCEPT !.pc = "up_put"]]
    /\ UNCHANGED <<store, started>>

\* faulty variant: the PUT carries the new start but not the new end
UpdatePut_startOnly(p) ==
    /\ proc[p].pc = "up_put"
    /\ IF appts[proc[p].apptId].status = "Deleted"
       THEN /\ \E answer \in GoneAnswers : proc' = [proc EXCEPT ![p] = gone(@, answer)]
            /\ UNCHANGED appts
       ELSE /\ appts' = [appts EXCEPT ![proc[p].apptId].startDate =
                                          parseDate(proc[p].newDate)]
            /\ proc' = [proc EXCEPT ![p] = respond(@, 200, "ok")]
    /\ UNCHANGED <<customers, vehicles, started>>

\* POST /update-appointment: PUT /appointment/:id {startDate, endDate}
UpdatePut(p) ==
    /\ proc[p].pc = "up_put"
    /\ LET start == parseDate(proc[p].newDate)
           end == start + durationMinutes
       IN IF appts[proc[p].apptId].status = "Deleted"
          THEN /\ \E answer \in GoneAnswers :
                      proc' = [proc EXCEPT ![p] = gone(@, answer)]
               /\ UNCHANGED appts
          ELSE /\ appts' = [appts EXCEPT ![proc[p].apptId].startDate = start,
                                         ![proc[p].apptId].endDate = end]
               /\ proc' = [proc EXCEPT ![p] = respond(@, 200, "ok")]
    /\ UNCHANGED <<customers, vehicles, started>>

\* POST /verify-appointment: getVehicleById and the fuzzy comparison
VerifyGetVehicle(p) ==
    /\ proc[p].pc = "vf_getVehicle"
    /\ LET vehicle == vehicles[proc[p].vehicleId]
       IN proc' = [proc EXCEPT ![p] =
              IF ~isFuzzyMatch(vehicle.make, proc[p].make)
                 \/ ~isFuzzyMatch(vehicle.model, proc[p].model)
              THEN respond(@, 404, "NotFound")
              ELSE respond(@, 200, "ok")]
    /\ UNCHANGED <<store, started>>

RemoteCallPcs ==
    {"bk_search", "bk_findCustomer", "bk_createCustomer", "bk_listVehicles",
     "bk_createVehicle", "bk_createAppt", "findCustomer", "findAppt", "cn_delete",
     "up_check", "up_put", "vf_getVehicle", "ca_search", "ic_search", "ic_context",
     "cr_search"}

\* a remote call fails: the handler's catch passes the error to the error
\* middleware, except getVehicleById, which returns null (404 in the handler)
failing(p, errors) ==
    /\ proc[p].pc \in RemoteCallPcs
    /\ \E error \in errors :
          proc' = [proc EXCEPT ![p] =
              IF proc[p].pc = "vf_getVehicle"
              THEN [respond(@, 404, "NotFound") EXCEPT
                       !.error = error,
                       !.message = "Vehicle associated with appointment not found."]
              ELSE fail(@, error)]
    /\ UNCHANGED <<store, started>>

RemoteFail(p) == failing(p, RemoteErrors)

\* POST /fetch-customer-detail: field validation
StartFetchCustomer(p, u) ==
    /\ canStart(p, u)
    /\ \E phone \in u.phones \cup (IF u.malformed THEN {Missing} ELSE {}) :
          LET r == [Idle EXCEPT !.op = "fetch", !.phone = phone]
          IN proc' = [proc EXCEPT ![p] =
                 IF phone = Missing THEN respond(r, 400, "InvalidInput")
                 ELSE [r EXCEPT !.pc = "fc_search"]]
    /\ count(u)
    /\ UNCHANGED store

\* POST /fetch-customer-detail: findCustomerByPhone and the response
FetchCustomerSearch(p) ==
    /\ proc[p].pc = "fc_search"
    /\ \E customer \in findCustomerByPhone(proc[p].phone) :
          proc' = [proc EXCEPT ![p] =
              IF customer = 0 THEN respond(@, 404, "NotFound")
              ELSE respond([@ EXCEPT !.customerId = customer], 200, "ok")]
    /\ UNCHANGED <<store, started>>

\* POST /fetch-customer-detail: the catch block
FetchCustomerFail(p, errors) ==
    /\ proc[p].pc = "fc_search"
    /\ \E error \in errors :
          proc' = [proc EXCEPT ![p] =
              IF error.status = 400
              THEN [respond(@, 404, "NotFound") EXCEPT
                       !.error = error,
                       !.message = "Customer not found (Invalid Phone Number)."]
              ELSE fail(@, error)]
    /\ UNCHANGED <<store, started>>

\* ------------------------------------------------------------------------
\* Shop calendar (Intl.DateTimeFormat with timeZone America/Los_Angeles)
\* ------------------------------------------------------------------------
\* days since 1970-01-01 of a proleptic Gregorian date
daysFromCivil(y, m, d) ==
    LET yy == IF m <= 2 THEN y - 1 ELSE y
        era == yy \div 400
        yoe == yy - era * 400
        mp == IF m > 2 THEN m - 3 ELSE m + 9
        doy == (153 * mp + 2) \div 5 + d - 1
        doe == yoe * 365 + yoe \div 4 - yoe \div 100 + doy
    IN era * 146097 + doe - 719468

\* the Gregorian date of a day number
civilFromDays(z) ==
    LET zz == z + 719468
        era == zz \div 146097
        doe == zz - era * 146097
        yoe == (doe - doe \div 1460 + doe \div 36524 - doe \div 146096) \div 365
        doy == doe - (365 * yoe + yoe \div 4 - yoe \div 100)
        mp == (5 * doy + 2) \div 153
        d == doy - (153 * mp + 2) \div 5 + 1
        m == IF mp < 10 THEN mp + 3 ELSE mp - 9
    IN [year |-> yoe + era * 400 + (IF m <= 2 THEN 1 ELSE 0), month |-> m, day |-> d]

\* 1970-01-01 was a Thursday; 0 = Sunday
weekdayOfDays(z) == (z + 4) % 7

\* the first Sunday on or after a day number
sundayOnOrAfter(z) == z + ((7 - weekdayOfDays(z)) % 7)

\* faulty variant: the shop is eight hours behind UTC all year
shopUtcOffset_fixed(t) == 0 - 8 * MinutesPerHour

\* America/Los_Angeles: daylight time from the second Sunday of March, 10:00Z,
\* to the first Sunday of November, 09:00Z
shopUtcOffset(t) ==
    LET y == civilFromDays(t \div MinutesPerDay).year
        dstStart == (sundayOnOrAfter(daysFromCivil(y, 3, 1)) + 7) * MinutesPerDay
                    + 10 * MinutesPerHour
        dstEnd == sundayOnOrAfter(daysFromCivil(y, 11, 1)) * MinutesPerDay
                  + 9 * MinutesPerHour
    IN IF t >= dstStart /\ t < dstEnd THEN 0 - 7 * MinutesPerHour
       ELSE 0 - 8 * MinutesPerHour

getShopTimeDetails(utcDate) ==
    LET local == utcDate + shopUtcOffset(utcDate)
        z == local \div MinutesPerDay
        civil == civilFromDays(z)
    IN [year |-> civil.year, month |-> civil.month, day |-> civil.day,
        weekday |-> weekdayOfDays(z),
        hour |-> ((local % MinutesPerDay) \div MinutesPerHour) % 24,
        minute |-> local % MinutesPerHour]

\* faulty variant: the date of the instant in UTC
shopDateString_utc(t) ==
    LET c == civilFromDays(t \div MinutesPerDay) IN <<c.year, c.month, c.day>>

\* `${year}-${month}-${day}` of an instant in the shop timezone
shopDateString(t) ==
    LET c == getShopTimeDetails(t) IN <<c.year, c.month, c.day>>

\* faulty variant: Sunday keeps the hours of a working day
isOpenAt_sevenDays(shopTime) ==
    LET slotMinutes == shopTime.hour * 60 + shopTime.minute
    IN IF shopTime.weekday = 6
       THEN slotMinutes >= 9 * 60 + 0 /\ slotMinutes < 11 * 60 + 0
       ELSE slotMinutes >= 8 * 60 + 0 /\ slotMinutes < 16 * 60 + 30

\* faulty variant: the closing minute itself still counts as open
isOpenAt_closedInterval(shopTime) ==
    LET isOpen == shopTime.weekday >= 1 /\ shopTime.weekday <= 6
        openMinutes == IF shopTime.weekday >= 1 /\ shopTime.weekday <= 5
                       THEN 8 * 60 + 0
                       ELSE IF shopTime.weekday = 6 THEN 9 * 60 + 0 ELSE 0
        closeMinutes == IF shopTime.weekday >= 1 /\ shopTime.weekday <= 5
                        THEN 16 * 60 + 30
                        ELSE IF shopTime.weekday = 6 THEN 11 * 60 + 0 ELSE 0
        slotMinutes == shopTime.hour * 60 + shopTime.minute
    IN isOpen /\ slotMinutes >= openMinutes /\ slotMinutes <= closeMinutes

\* business hours of a shop-local time: Mon-Fri 08:00-16:30, Sat 09:00-11:00
isOpenAt(shopTime) ==
    LET isOpen == shopTime.weekday >= 1 /\ shopTime.weekday <= 6
        openMinutes == IF shopTime.weekday >= 1 /\ shopTime.weekday <= 5
                       THEN 8 * 60 + 0
                       ELSE IF shopTime.weekday = 6 THEN 9 * 60 + 0 ELSE 0
        closeMinutes == IF shopTime.weekday >= 1 /\ shopTime.weekday <= 5
                        THEN 16 * 60 + 30
                        ELSE IF shopTime.weekday = 6 THEN 11 * 60 + 0 ELSE 0
        slotMinutes == shopTime.hour * 60 + shopTime.minute
    IN isOpen /\ slotMinutes >= openMinutes /\ slotMinutes < closeMinutes

\* faulty variant: Saturday carries no lead-time rule
passesLeadTime_noRule(shopTime, candidateStart, currentNow) == TRUE

\* Saturday 24h notice
passesLeadTime(shopTime, candidateStart, currentNow) ==
    shopTime.weekday = 6 => ~(candidateStart - currentNow < 24 * MinutesPerHour)

\* baseDate.setUTCHours(12, 0, 0, 0) minus / plus 18 hours
searchLoopStart(startRange) ==
    (startRange \div MinutesPerDay) * MinutesPerDay + 12 * MinutesPerHour
    - 18 * MinutesPerHour
searchLoopEnd(startRange) ==
    (startRange \div MinutesPerDay) * MinutesPerDay + 12 * MinutesPerHour
    + 18 * MinutesPerHour

\* Date.prototype.getMinutes (the server's zone is at a whole-hour offset)
getMinutes(t) == t % MinutesPerHour

\* "Align to nearest 30 min"
alignedStart(t) ==
    IF getMinutes(t) > 30 THEN t + (60 - getMinutes(t))
    ELSE IF getMinutes(t) > 0 THEN t + (30 - getMinutes(t))
    ELSE t

\* POST /appointment/search of /check-availability
appointmentsWithin(lo, hi) ==
    {a \in DOMAIN appts :
        /\ appts[a].locationId = LOCATION_ID
        /\ appts[a].startDate >= lo
        /\ appts[a].endDate <= hi
        /\ appts[a].status \notin {"Canceled", "Deleted"}}

\* faulty variant: the loop advances by a quarter of an hour
candidateSlots_quarterHour(startRange) ==
    LET first == alignedStart(searchLoopStart(startRange))
        n == (searchLoopEnd(startRange) - first + 14) \div 15
    IN [k \in 1..n |-> first + 15 * (k - 1)]

\* the candidate instants the while loop visits, in order
candidateSlots(startRange) ==
    LET first == alignedStart(searchLoopStart(startRange))
        n == (searchLoopEnd(startRange) - first + 29) \div 30
    IN [k \in 1..n |-> first + 30 * (k - 1)]

\* the loop body's test of one candidate
keepsSlot(slotTime, startRange, existingAppointments, currentNow) ==
    LET shopTime == getShopTimeDetails(slotTime)
        candidateEnd == slotTime + durationMinutes
    IN /\ <<shopTime.year, shopTime.month, shopTime.day>> = shopDateString(startRange)
       /\ isOpenAt(shopTime)
       /\ passesLeadTime(shopTime, slotTime, currentNow)
       /\ ~\E a \in existingAppointments :
              isOverlapping(appts[a].startDate, appts[a].endDate, slotTime, candidateEnd)

potentialSlots(startRange, existingAppointments, currentNow) ==
    SelectSeq(candidateSlots(startRange),
              LAMBDA t : keepsSlot(t, startRange, existingAppointments, currentNow))

\* faulty variant: the cursor advances by a whole hour
nextSlotTime_hourly(slotTime) == slotTime + 60

\* slotTime.setMinutes(slotTime.getMinutes() + 30), in a server zone that
\* sets no clock back inside the scanned window
nextSlotTime(slotTime) == slotTime + 30

\* the number of passes of while (slotTime < endTime) { ...; advance }
RECURSIVE loopVisits(_, _)
loopVisits(slotTime, endTime) ==
    IF slotTime < endTime THEN 1 + loopVisits(nextSlotTime(slotTime), endTime)
    ELSE 0

\* passes of the range-mode loop; a comparison with an invalid date is false
rangeVisits(startRange, endRange) ==
    IF isNaN(parseDate(startRange)) \/ isNaN(parseDate(endRange)) THEN 0
    ELSE loopVisits(parseDate(startRange), parseDate(endRange))

NowInputs == {TSat1000 - MinutesPerDay - 30}

\* POST /check-availability: validation and the target shop date
StartCheckAvailability(p, u) ==
    /\ canStart(p, u)
    /\ \E startRange \in SlotRangeInputs(u) :
          LET r == [Idle EXCEPT !.op = "check", !.startRange = startRange]
          IN proc' = [proc EXCEPT ![p] =
                 IF startRange = NoDate THEN respond(r, 400, "InvalidInput")
                 ELSE IF isNaN(parseDate(startRange))
                 THEN respond(r, errorStatus(0), "LocalError")
                 ELSE [r EXCEPT !.pc = "ca_search"]]
    /\ count(u)
    /\ UNCHANGED store

\* POST /check-availability: appointment search, slot loop and response
CheckAvailabilitySearch(p) ==
    /\ proc[p].pc = "ca_search"
    /\ LET startRange == parseDate(proc[p].startRange)
       IN \E page \in Pages(appointmentsWithin(searchLoopStart(startRange),
                                               searchLoopEnd(startRange)),
                            SlotSearchLimit) :
          \E currentNow \in NowInputs :
             proc' = [proc EXCEPT ![p] =
                 respond([@ EXCEPT !.now = currentNow,
                                   !.slots = potentialSlots(startRange, page, currentNow),
                                   !.visited = loopVisits(
                                       alignedStart(searchLoopStart(startRange)),
                                       searchLoopEnd(startRange))],
                         200, "ok")]
    /\ UNCHANGED <<store, started>>

\* ------------------------------------------------------------------------
\* part_000: POST /check-availability over [startRange, endRange)
\* ------------------------------------------------------------------------
\* getShopHourAndDay: hour and weekday of an instant in the shop timezone
getShopHourAndDay(utcDate) ==
    [hour |-> getShopTimeDetails(utcDate).hour % 24,
     day |-> getShopTimeDetails(utcDate).weekday]

\* the instants currentTime takes while (currentTime < endTime), 30 minutes
\* apart from startRange on
rangeCandidates(startRange, endRange) ==
    LET currentTime == parseDate(startRange)
        endTime == parseDate(endRange)
        n == IF isNaN(currentTime) \/ isNaN(endTime) \/ ~(currentTime < endTime) THEN 0
             ELSE (endTime - currentTime + 29) \div 30
    IN [k \in 1..n |-> currentTime + 30 * (k - 1)]

\* weekdays (Mon-Fri) and businessHours { start: 9, end: 17 }
rangeOpenAt(t) ==
    /\ getShopHourAndDay(t).day > 0 /\ getShopHourAndDay(t).day < 6
    /\ getShopHourAndDay(t).hour >= 9 /\ getShopHourAndDay(t).hour < 17

\* potentialSlots filtered against existingAppointments
availableSlots(startRange, endRange, existingAppointments) ==
    SelectSeq(rangeCandidates(startRange, endRange),
              LAMBDA slotStart :
                 /\ rangeOpenAt(slotStart)
                 /\ ~\E a \in existingAppointments :
                        isOverlapping(appts[a].startDate, appts[a].endDate,
                                      slotStart, slotStart + durationMinutes))

\* the longest range asked for, in 30-minute steps
MaxRangeSteps == 60

\* range ends: before, at and after the starts, a night later, on Saturday
RangeEndInputs(startRange) ==
    {endRange \in {T1000 - 90, T1000, T1000 + 45, T1000 + 90,
                   T1000 + 8 * MinutesPerHour, T1000 + 26 * MinutesPerHour,
                   TSat1000 + 60} :
        endRange - startRange <= 30 * MaxRangeSteps}

\* POST /check-availability (range mode): field validation
StartRangeAvailability(p, u) ==
    /\ canStart(p, u)
    /\ \E startRange \in u.ranges \cup (IF u.malformed THEN {NoDate} ELSE {}) :
       \E endRange \in RangeEndInputs(startRange)
                        \cup (IF u.malformed THEN {NoDate} ELSE {}) :
          LET r == [Idle EXCEPT !.op = "check-range", !.startRange = startRange,
                                !.endRange = endRange]
          IN proc' = [proc EXCEPT ![p] =
                 IF startRange = NoDate \/ endRange = NoDate
                 THEN respond(r, 400, "InvalidInput")
                 ELSE [r EXCEPT !.pc = "cr_search"]]
    /\ count(u)
    /\ UNCHANGED store

\* POST /check-availability (range mode): the appointment search (startDate
\* gte startRange, endDate lte endRange, no limit given), the slot loop, the
\* conflict filter and the response
RangeAvailabilitySearch(p) ==
    /\ proc[p].pc = "cr_search"
    /\ LET existingAppointments ==
               appointmentsWithin(proc[p].startRange, proc[p].endRange)
       IN proc' = [proc EXCEPT ![p] =
              respond([@ EXCEPT
                          !.slots = availableSlots(proc[p].startRange, proc[p].endRange,
                                                   existingAppointments),
                          !.result = <<Len(rangeCandidates(proc[p].startRange,
                                                           proc[p].endRange))>>,
                          !.visited = rangeVisits(proc[p].startRange,
                                                  proc[p].endRange)],
                      200, "ok")]
    /\ UNCHANGED <<store, started>>

\* POST /identify-caller: field validation
StartIdentifyCaller(p, u) ==
    /\ canStart(p, u)
    /\ \E phone \in u.phones \cup (IF u.malformed THEN {Missing} ELSE {}) :
          LET r == [Idle EXCEPT !.op = "identify", !.phone = phone]
          IN proc' = [proc EXCEPT ![p] =
                 IF phone = Missing THEN respond(r, 400, "InvalidInput")
                 ELSE [r EXCEPT !.pc = "ic_search"]]
    /\ count(u)
    /\ UNCHANGED store

\* faulty variant: the two queries are issued whether or not a customer was
\* found
IdentifySearch_alwaysQueries(p) ==
    /\ proc[p].pc = "ic_search"
    /\ \E currentNow \in NowInputs :
       \E customer \in (IF customersByPhone(normalizeToE164(proc[p].phone)) = {} THEN {0}
                        ELSE customersByPhone(normalizeToE164(proc[p].phone))) :
          proc' = [proc EXCEPT ![p] =
                     [@ EXCEPT !.customerId = customer, !.now = currentNow,
                               !.pending = {"orders", "appointments"},
                               !.pc = "ic_context"]]
    /\ UNCHANGED <<store, started>>

\* POST /identify-caller: customer lookup by normalizeToE164(phone); with a
\* customer found, nowISO is taken and both queries of Promise.all are issued
IdentifySearch(p) ==
    /\ proc[p].pc = "ic_search"
    /\ LET found == customersByPhone(normalizeToE164(proc[p].phone))
       IN IF found = {}
          THEN proc' = [proc EXCEPT ![p] = respond(@, 200, "NotFound")]
          ELSE \E customer \in found : \E currentNow \in NowInputs :
                  proc' = [proc EXCEPT ![p] =
                             [@ EXCEPT !.customerId = customer, !.now = currentNow,
                                       !.pending = {"orders", "appointments"},
                                       !.pc = "ic_context"]]
    /\ UNCHANGED <<store, started>>

\* GET /customer/:id/order (archived: false, updatedDate DESC, limit 1): the
\* connector never writes an order; customer 1 has one, an Estimate
latestOrder(customerId) == IF customerId = 1 THEN 1 ELSE 0

\* POST /appointment/search (customerId, startDate gte nowISO, status not
\* Canceled, startDate asc, limit 1)
futureAppointments(customerId, nowISO) ==
    LET future == {a \in appointmentsOfCustomer(customerId) :
                      appts[a].startDate >= nowISO}
    IN {a \in future : \A b \in future : appts[a].startDate <= appts[b].startDate}

\* Step 3 of /identify-caller once both queries have answered
identified(r) == IF r.pending = {} THEN respond(r, 200, "ok") ELSE r

\* Query A of Promise.all answers
IdentifyOrders(p) ==
    /\ proc[p].pc = "ic_context"
    /\ "orders" \in proc[p].pending
    /\ proc' = [proc EXCEPT ![p] =
          identified([@ EXCEPT !.orderId = latestOrder(proc[p].customerId),
                               !.pending = @ \ {"orders"},
                               !.result = Append(@, "orders")])]
    /\ UNCHANGED <<store, started>>

\* Query B of Promise.all answers
IdentifyAppointments(p) ==
    /\ proc[p].pc = "ic_context"
    /\ "appointments" \in proc[p].pending
    /\ \E next \in (IF futureAppointments(proc[p].customerId, proc[p].now) = {}
                     THEN {0}
                     ELSE futureAppointments(proc[p].customerId, proc[p].now)) :
          proc' = [proc EXCEPT ![p] =
              identified([@ EXCEPT !.apptId = next,
                                   !.pending = @ \ {"appointments"},
                                   !.result = Append(@, "appointments")])]
    /\ UNCHANGED <<store, started>>

\* ------------------------------------------------------------------------
\* part_002: POST /book-appointment against the v2 API
\* ------------------------------------------------------------------------
MakeModelInputs == {Toyota \o <<" ">> \o Camry}

BookAppointmentInputs(u) ==
    [name : NameInputs, phone : u.phones, makeModel : MakeModelInputs,
     reason : TitleInputs, dateTime : DateInputs(u)]
    \cup (IF u.malformed
          THEN {[name |-> JohnDoe, phone |-> Missing, makeModel |-> Toyota,
                 reason |-> OilChange, dateTime |-> T1000]}
          ELSE {})

\* POST /book-appointment: field validation
StartBookAppointment(p, u) ==
    /\ canStart(p, u)
    /\ \E in \in BookAppointmentInputs(u) :
          LET r == [Idle EXCEPT !.op = "book-appointment", !.name = in.name,
                                !.phone = in.phone, !.model = in.makeModel,
                                !.title = in.reason, !.startDate = in.dateTime]
          IN proc' = [proc EXCEPT ![p] =
                 IF \/ in.name = Missing \/ in.phone = Missing \/ in.makeModel = Missing
                    \/ in.reason = Missing \/ in.dateTime = NoDate
                 THEN respond(r, 400, "InvalidInput")
                 ELSE [r EXCEPT !.pc = "v2_findCustomer"]]
    /\ count(u)
    /\ UNCHANGED store

\* findOrCreateCustomer (v2): GET /customers?phone=<phone>&limit=1
V2FindCustomer(p) ==
    /\ proc[p].pc = "v2_findCustomer"
    /\ LET found == customersByPhone(proc[p].phone)
       IN IF found = {}
          THEN proc' = [proc EXCEPT ![p] = [@ EXCEPT !.pc = "v2_createCustomer"]]
          ELSE \E customer \in found :
                  proc' = [proc EXCEPT ![p] = [@ EXCEPT !.customerId = customer,
                                                        !.pc = "v2_listVehicles"]]
    /\ UNCHANGED <<store, started>>

\* findOrCreateCustomer (v2): POST /customers {firstName, lastName, phone}
V2CreateCustomer(p) ==
    /\ proc[p].pc = "v2_createCustomer"
    /\ Len(customers) < MaxCustomers
    /\ customers' = Append(customers,
            [phone |-> proc[p].phone,
             firstName |-> splitName(proc[p].name).firstName,
             lastName |-> IF splitName(proc[p].name).lastName = <<>>
                          THEN <<"N", "/", "A">>
                          ELSE splitName(proc[p].name).lastName])
    /\ proc' = [proc EXCEPT ![p] = [@ EXCEPT !.customerId = Len(customers) + 1,
                                             !.customerCreated = TRUE,
                                             !.pc = "v2_listVehicles"]]
    /\ UNCHANGED <<vehicles, appts, started>>

\* findOrCreateVehicle (v2): GET /vehicles?customerId= and the comparison of
\* `${make} ${model}` with makeModel, lower-cased and trimmed
V2ListVehicles(p) ==
    /\ proc[p].pc = "v2_listVehicles"
    /\ LET found == {v \in vehiclesOfCustomer(proc[p].customerId) :
                        trim(toLowerCase(vehicles[v].make \o <<" ">> \o vehicles[v].model))
                        = trim(toLowerCase(proc[p].model))}
       IN IF found = {}
          THEN proc' = [proc EXCEPT ![p] = [@ EXCEPT !.pc = "v2_createVehicle"]]
          ELSE \E existingVehicle \in found :
                  proc' = [proc EXCEPT ![p] = [@ EXCEPT !.vehicleId = existingVehicle,
                                                        !.pc = "v2_createAppt"]]
    /\ UNCHANGED <<store, started>>

\* findOrCreateVehicle (v2): POST /vehicles {customerId, make, model}
V2CreateVehicle(p) ==
    /\ proc[p].pc = "v2_createVehicle"
    /\ Len(vehicles) < MaxVehicles
    /\ LET parts == splitName(proc[p].model)
       IN vehicles' = Append(vehicles,
            [customerId |-> proc[p].customerId,
             make |-> IF SubSeq(proc[p].model, 1, 1) = <<" ">>
                      THEN <<"U", "n", "k", "n", "o", "w", "n">> ELSE parts.firstName,
             model |-> IF parts.lastName = <<>> THEN <<"M", "o", "d", "e", "l">>
                       ELSE parts.lastName,
             size |-> "none"])
    /\ proc' = [proc EXCEPT ![p] = [@ EXCEPT !.vehicleId = Len(vehicles) + 1,
                                             !.vehicleCreated = TRUE,
                                             !.pc = "v2_createAppt"]]
    /\ UNCHANGED <<customers, appts, started>>

\* POST /appointments {customerId, vehicleId, title, startDateTime} and the
\* 201 response; the end of the appointment is left to the remote
V2CreateAppointment(p) ==
    /\ proc[p].pc = "v2_createAppt"
    /\ Len(appts) < MaxAppts
    /\ proc[p].startDate >= 0
    /\ appts' = Append(appts,
            [customerId |-> proc[p].customerId, vehicleId |-> proc[p].vehicleId,
             locationId |-> LOCATION_ID, name |-> proc[p].title,
             startDate |-> proc[p].startDate, endDate |-> NoDate,
             status |-> "Scheduled"])
    /\ proc' = [proc EXCEPT ![p] = respond([@ EXCEPT !.apptId = Len(appts) + 1],
                                           201, "ok")]
    /\ UNCHANGED <<customers, vehicles, started>>

\* the catch block of /book-appointment: 409 and 422 of the remote are
\* answered 200 with status 'failure', anything else 500
V2BookFail(p) ==
    /\ proc[p].pc \in {"v2_findCustomer", "v2_createCustomer", "v2_listVehicles",
                       "v2_createVehicle", "v2_createAppt"}
    /\ \E error \in RemoteErrors \cup {[status |-> 409, message |-> "remote message"],
                                        [status |-> 422, message |-> "remote message"]} :
          proc' = [proc EXCEPT ![p] =
              [respond(@, IF error.status \in {409, 422} THEN 200 ELSE 500,
                       IF error.status \in {409, 422} THEN "Conflict" ELSE "RemoteFailure")
                  EXCEPT !.error = error,
                         !.message = IF error.status \in {409, 422}
                                     THEN "That time slot is not available. Please suggest another time."
                                     ELSE "An internal server error occurred."]]
    /\ UNCHANGED <<store, started>>

\* the response has been sent: the handler's locals are gone
Finish(p) ==
    /\ proc[p].pc = "done"
    /\ proc' = [proc EXCEPT ![p] = Idle]
    /\ UNCHANGED <<store, started>>

\* ------------------------------------------------------------------------
\* Specifications
\* ------------------------------------------------------------------------
Step(p, u) ==
    \/ StartBooking(p, u)
    \/ BookingSearch(p)
    \/ BookingFindCustomer(p)
    \/ BookingCreateCustomer(p)
    \/ BookingListVehicles(p)
    \/ BookingCreateVehicle(p)
    \/ BookingCreateAppointment(p)
    \/ StartCancel(p, u)
    \/ StartUpdate(p, u)
    \/ StartVerify(p, u)
    \/ FindCustomer(p)
    \/ FindAppointment(p)
    \/ CancelDelete(p)
    \/ UpdateCheck(p)
    \/ UpdatePut(p)
    \/ VerifyGetVehicle(p)
    \/ StartCheckAvailability(p, u)
    \/ CheckAvailabilitySearch(p)
    \/ RemoteFail(p)
    \/ Finish(p)

\* requests of concurrent callers, interleaved at their remote calls
Concurrent ==
    [counted |-> TRUE, malformed |-> FALSE, phones |-> {PhoneA, PhoneAFormatted},
     dates |-> {T1000, T1000 + 30}, ranges |-> {T1000}, models |-> ModelInputs]

Next == \E p \in Procs : Step(p, Concurrent)

Spec == Init /\ [][Next]_vars

\* one caller whose requests each run to completion before the next starts
Sequential ==
    [counted |-> FALSE, malformed |-> TRUE, phones |-> PhoneInputs,
     dates |-> Times, ranges |-> {T1000, TSat1000}, models |-> ModelInputs]

SeqNext == Step(1, Sequential)

SpecSeq == Init /\ [][SeqNext]_vars

\* one caller again, naming the vehicle in several ways
VehicleRequests ==
    [counted |-> FALSE, malformed |-> FALSE, phones |-> {PhoneA},
     dates |-> {T1000, T1000 + 30}, ranges |-> {T1000},
     models |-> {Camry, Camary, Civic}]

VehicleNext == Step(1, VehicleRequests)

SpecVehicles == Init /\ [][VehicleNext]_vars

\* reference instants of /check-availability: Tuesday 2025-11-25 10:00 and
\* 19:00 shop time (the latter is 2025-11-26 in UTC), Friday 19:00, Saturday
\* and Sunday 10:00, and Tuesday 2025-07-01 11:00 and 19:00 in daylight time
RefTuesdayEvening == T1000 + 9 * MinutesPerHour
RefFridayEvening == TSat1000 - 15 * MinutesPerHour
RefSunday == TSat1000 + MinutesPerDay
RefSundayEvening == RefSunday + 9 * MinutesPerHour
RefSummer == daysFromCivil(2025, 7, 1) * MinutesPerDay + 18 * MinutesPerHour
RefSummerEvening == RefSummer + 8 * MinutesPerHour
ReferenceInputs ==
    {T1000, RefTuesdayEvening, RefFridayEvening, TSat1000, RefSunday,
     RefSundayEvening, RefSummer, RefSummerEvening}

\* stores with an appointment off the half-hour grid and with a vehicle
\* left overnight, Tuesday 16:00 to Wednesday 08:00 shop time
SlotStores ==
    InitStores \cup
    { storeWith(<<apptOf(LOCATION_ID, T1000 - 15, T1000 + 15, "Scheduled")>>),
      storeWith(<<apptOf(LOCATION_ID, T1000 + 6 * MinutesPerHour,
                         T1000 + 22 * MinutesPerHour, "Confirmed")>>),
      storeWith(<<apptOf(LOCATION_ID, TSat1000, TSat1000 + durationMinutes,
                         "Scheduled")>>) }

SlotsInit ==
    /\ \E s \in SlotStores :
          /\ customers = s.customers
          /\ vehicles = s.vehicles
          /\ appts = s.appts
    /\ proc = [p \in Procs |-> Idle]
    /\ started = 0

\* one caller of every operation while remote calls fail in every way
FailureRequests ==
    [counted |-> FALSE, malformed |-> FALSE, phones |-> {PhoneA, PhoneB},
     dates |-> {T1000}, ranges |-> {T1000}, models |-> {Camry}]

FailuresNext ==
    \/ StartBooking(1, FailureRequests)
    \/ BookingSearch(1)
    \/ BookingFindCustomer(1)
    \/ BookingCreateCustomer(1)
    \/ BookingListVehicles(1)
    \/ BookingCreateVehicle(1)
    \/ BookingCreateAppointment(1)
    \/ StartCancel(1, FailureRequests)
    \/ StartUpdate(1, FailureRequests)
    \/ StartVerify(1, FailureRequests)
    \/ FindCustomer(1)
    \/ FindAppointment(1)
    \/ CancelDelete(1)
    \/ UpdateCheck(1)
    \/ UpdatePut(1)
    \/ VerifyGetVehicle(1)
    \/ StartCheckAvailability(1, FailureRequests)
    \/ CheckAvailabilitySearch(1)
    \/ StartFetchCustomer(1, FailureRequests)
    \/ FetchCustomerSearch(1)
    \/ FetchCustomerFail(1, AllRemoteErrors)
    \/ failing(1, AllRemoteErrors)
    \/ Finish(1)

SpecFailures == Init /\ [][FailuresNext]_vars

\* one caller of every operation that looks a customer up by phone, in both
\* API versions
KeyRequests ==
    [counted |-> FALSE, malformed |-> FALSE, phones |-> PhoneInputs,
     dates |-> {T1000}, ranges |-> {T1000}, models |-> {Camry}]

KeysNext ==
    \/ StartFetchCustomer(1, KeyRequests)
    \/ FetchCustomerSearch(1)
    \/ FetchCustomerFail(1, RemoteErrors)
    \/ StartIdentifyCaller(1, KeyRequests)
    \/ IdentifySearch(1)
    \/ IdentifyOrders(1)
    \/ IdentifyAppointments(1)
    \/ StartBooking(1, KeyRequests)
    \/ BookingSearch(1)
    \/ BookingFindCustomer(1)
    \/ BookingCreateCustomer(1)
    \/ BookingListVehicles(1)
    \/ BookingCreateVehicle(1)
    \/ BookingCreateAppointment(1)
    \/ StartCancel(1, KeyRequests)
    \/ StartUpdate(1, KeyRequests)
    \/ StartVerify(1, KeyRequests)
    \/ FindCustomer(1)
    \/ FindAppointment(1)
    \/ CancelDelete(1)
    \/ UpdateCheck(1)
    \/ UpdatePut(1)
    \/ VerifyGetVehicle(1)
    \/ RemoteFail(1)
    \/ StartBookAppointment(1, KeyRequests)
    \/ V2FindCustomer(1)
    \/ V2CreateCustomer(1)
    \/ V2ListVehicles(1)
    \/ V2CreateVehicle(1)
    \/ V2CreateAppointment(1)
    \/ V2BookFail(1)
    \/ Finish(1)

SpecKeys == Init /\ [][KeysNext]_vars

\* normalizeToE164 applied to a phone string and then to its own result
MaxDigits == 12

\* n digits, the first of them `first`, written with `prefix` in front and
\* `separator` after the third digit
phoneString(prefix, n, first, separator) ==
    LET d == [i \in 1..n |-> IF i = 1 THEN first ELSE "5"]
    IN prefix \o SubSeq(d, 1, Min2(3, n)) \o separator \o SubSeq(d, 4, n)

Phone11 == <<"1">> \o PhoneA
PhoneUK == <<"+", "4", "4", " ", "2", "0", " ", "7", "9", "4", "6", " ",
             "0", "9", "5", "8">>

PhoneStrings ==
    {phoneString(prefix, n, first, separator) :
        prefix \in {<<>>, <<"+">>, <<" ", "+">>, <<"(">>}, n \in 0..MaxDigits,
        first \in {"1", "5"}, separator \in {<<>>, <<"-">>, <<" ">>}}
    \cup {Phone11, PhoneUK, PhoneA, PhoneAFormatted, PhoneB}

PhonesInit ==
    /\ customers = <<>> /\ vehicles = <<>> /\ appts = <<>>
    /\ started = 0
    /\ \E phone \in PhoneStrings :
          proc = [p \in Procs |->
                    IF p = 1 THEN [Idle EXCEPT !.op = "normalize", !.phone = phone,
                                               !.pc = "nz_first"]
                    ELSE Idle]

NormalizeFirst(p) ==
    /\ proc[p].pc = "nz_first"
    /\ proc' = [proc EXCEPT ![p] =
                   [@ EXCEPT !.result = <<normalizeToE164(proc[p].phone)>>,
                             !.pc = "nz_second"]]
    /\ UNCHANGED <<store, started>>

NormalizeSecond(p) ==
    /\ proc[p].pc = "nz_second"
    /\ proc' = [proc EXCEPT ![p] =
                   [@ EXCEPT !.result = Append(@, normalizeToE164(proc[p].result[1])),
                             !.pc = "done"]]
    /\ UNCHANGED <<store, started>>

PhonesNext == NormalizeFirst(1) \/ NormalizeSecond(1)

SpecPhones == PhonesInit /\ [][PhonesNext]_vars

\* stores for a range that begins at 10:00 shop time: appointments across
\* the beginning and across the end of the range, and one inside it
RangeStores ==
    SlotStores \cup
    { storeWith(<<apptOf(LOCATION_ID, T1000 + 30, T1000 + 60, "Scheduled"),
                  apptOf(LOCATION_ID, T1000 + 75, T1000 + 105, "Confirmed")>>),
      storeWith(<<apptOf(LOCATION_ID, T1000 - 60, T1000 + 120, "Scheduled")>>) }

RangeInit ==
    /\ \E s \in RangeStores :
          /\ customers = s.customers
          /\ vehicles = s.vehicles
          /\ appts = s.appts
    /\ proc = [p \in Procs |-> Idle]
    /\ started = 0

\* one caller asking for the free slots of a range: from 08:30, 10:00 or
\* 10:15 shop time on Tuesday, from 10:00 on Saturday
RangeRequests ==
    [counted |-> FALSE, malformed |-> TRUE, phones |-> {PhoneA},
     dates |-> {T1000}, ranges |-> {T1000 - 90, T1000, T1000 + 15, TSat1000},
     models |-> ModelInputs]

RangeNext ==
    \/ StartRangeAvailability(1, RangeRequests)
    \/ RangeAvailabilitySearch(1)
    \/ RemoteFail(1)
    \/ Finish(1)

SpecRange == RangeInit /\ [][RangeNext]_vars

\* stores whose customer has appointments after now: one on Saturday, or one
\* on Saturday and an earlier one on Friday evening
IdentifyStores ==
    SlotStores \cup
    { storeWith(<<apptOf(LOCATION_ID, TSat1000, TSat1000 + durationMinutes, "Scheduled"),
                  apptOf(LOCATION_ID, TSat1000 - 18 * MinutesPerHour,
                         TSat1000 - 18 * MinutesPerHour + durationMinutes, "Confirmed")>>),
      storeWith(<<apptOf(LOCATION_ID, TSat1000, TSat1000 + durationMinutes, "Canceled")>>) }

IdentifyInit ==
    /\ \E s \in IdentifyStores :
          /\ customers = s.customers
          /\ vehicles = s.vehicles
          /\ appts = s.appts
    /\ proc = [p \in Procs |-> Idle]
    /\ started = 0

\* one caller identifying themselves
IdentifyRequests ==
    [counted |-> FALSE, malformed |-> TRUE, phones |-> PhoneInputs,
     dates |-> {T1000}, ranges |-> {T1000}, models |-> ModelInputs]

IdentifyNext ==
    \/ StartIdentifyCaller(1, IdentifyRequests)
    \/ IdentifySearch(1)
    \/ IdentifyOrders(1)
    \/ IdentifyAppointments(1)
    \/ RemoteFail(1)
    \/ Finish(1)

SpecIdentify == IdentifyInit /\ [][IdentifyNext]_vars

\* a day book filled by the connector: n appointments of 30 minutes, back to
\* back from `first` on, with a free half hour at `free`; the one at `own`
\* belongs to customer 1, the others to customer 2
CustomerB == [phone |-> normalizeToE164(PhoneB),
              firstName |-> <<"B", "o", "b">>, lastName |-> <<"R", "a", "y">>]

fullBook(first, n, free, own) ==
    [customers |-> <<CustomerA, CustomerB>>, vehicles |-> <<VehicleA>>,
     appts |-> [k \in 1..n |->
        LET start == first + 30 * (k - 1)
                     + (IF first + 30 * (k - 1) >= free THEN 30 ELSE 0)
        IN [apptOf(LOCATION_ID, start, start + durationMinutes, "Scheduled")
               EXCEPT !.customerId = IF start = own THEN 1 ELSE 2]]]

\* books that reach from before T1000 - 24h to after T1000 + 24h, on the
\* half-hour grid and a quarter of an hour off it, without and with a free
\* half hour at T1000
WindowStores ==
    InitStores \cup
    {fullBook(T1000 - windowMinutes - 30 + shift, 99, free, T1000 + 60 + shift) :
        shift \in {0, 15},
        free \in {T1000, T1000 - windowMinutes, T1000 + 3 * windowMinutes}}

WindowInit ==
    /\ \E s \in WindowStores :
          /\ customers = s.customers
          /\ vehicles = s.vehicles
          /\ appts = s.appts
    /\ proc = [p \in Procs |-> Idle]
    /\ started = 0

\* one caller booking and moving appointments in a full book
WindowRequests ==
    [counted |-> FALSE, malformed |-> FALSE, phones |-> {PhoneA},
     dates |-> {T1000, T1000 + 15, T1000 + 60}, ranges |-> {T1000},
     models |-> ModelInputs]

WindowNext == Step(1, WindowRequests)

SpecWindow == WindowInit /\ [][WindowNext]_vars

\* one caller booking and moving appointments to 10:00 and 10:15 on Tuesday,
\* 22:00 on Tuesday and 10:00 on Sunday, shop time
AcceptRequests ==
    [counted |-> FALSE, malformed |-> TRUE, phones |-> {PhoneA},
     dates |-> {T1000, T1000 + 15, T1000 + 12 * MinutesPerHour, RefSunday},
     ranges |-> {T1000}, models |-> ModelInputs]

AcceptNext == Step(1, AcceptRequests)

SpecAccept == Init /\ [][AcceptNext]_vars

\* one caller asking for the free slots of a day
SlotRequests ==
    [counted |-> FALSE, malformed |-> TRUE, phones |-> {PhoneA},
     dates |-> {T1000}, ranges |-> ReferenceInputs, models |-> ModelInputs]

SlotsNext ==
    \/ StartCheckAvailability(1, SlotRequests)
    \/ CheckAvailabilitySearch(1)
    \/ RemoteFail(1)
    \/ Finish(1)

SpecSlots == SlotsInit /\ [][SlotsNext]_vars

\* a regular customer: an appointment at 10:00 on each of the last days, one
\* more than a page of the locator's search holds
RegularAppointments ==
    [k \in 1..(LocatorSearchLimit + 1) |->
        apptOf(LOCATION_ID, T1000 - (k - 1) * MinutesPerDay,
               T1000 - (k - 1) * MinutesPerDay + durationMinutes, "Scheduled")]

LocatorInit ==
    /\ \E s \in InitStores \cup {storeWith(RegularAppointments)} :
          /\ customers = s.customers
          /\ vehicles = s.vehicles
          /\ appts = s.appts
    /\ proc = [p \in Procs |-> Idle]
    /\ started = 0

\* one caller verifying and cancelling appointments
LocatorRequests ==
    [counted |-> FALSE, malformed |-> FALSE, phones |-> {PhoneA, PhoneB},
     dates |-> {T1000, T1000 + 15, T1000 - MinutesPerDay}, ranges |-> {T1000},
     models |-> ModelInputs]

LocatorNext ==
    \/ StartCancel(1, LocatorRequests)
    \/ StartVerify(1, LocatorRequests)
    \/ FindCustomer(1)
    \/ FindAppointment(1)
    \/ CancelDelete(1)
    \/ VerifyGetVehicle(1)
    \/ RemoteFail(1)
    \/ Finish(1)

SpecLocator == LocatorInit /\ [][LocatorNext]_vars

\* ------------------------------------------------------------------------
\* server.js: POST /create-vehicle and its exact-match findOrCreateVehicle
\* ------------------------------------------------------------------------
\* a vehicle or a request without a year (undefined is falsy)
NoYear == 0
Year2020 == 2020
Year2021 == 2021
YearInputs == {NoYear, Year2020, Year2021}

CamryShouted == <<"C", "A", "M", "R", "Y", " ">>

vehicleOf(customerId, year) ==
    [customerId |-> customerId, make |-> Toyota, model |-> Camry,
     size |-> "Midsize", year |-> year]

ServerInitVehicles ==
    {<<>>, <<vehicleOf(1, Year2020)>>, <<vehicleOf(1, NoYear)>>}

ServerInit ==
    /\ customers = <<CustomerA>>
    /\ vehicles \in ServerInitVehicles
    /\ appts = <<>>
    /\ proc = [p \in Procs |-> Idle]
    /\ started = 0

CreateVehicleInputs ==
    [customerId : {0, 1, 2}, year : YearInputs, make : {Toyota, Missing},
     model : {Camry, CamryShouted}]

\* Centralized error handling middleware of server.js
serverErrorStatus(remoteStatus, path) ==
    IF (remoteStatus = 422 \/ remoteStatus = 409) /\ path = "/book-appointment"
    THEN 409
    ELSE 500

\* faulty variant: the year is not compared
exactMatchingVehicles_anyYear(customerId, year, make, model) ==
    {v \in vehiclesOfCustomer(customerId) :
        /\ trim(toLowerCase(vehicles[v].make)) = trim(toLowerCase(make))
        /\ trim(toLowerCase(vehicles[v].model)) = trim(toLowerCase(model))}

\* findOrCreateVehicle of server.js: the vehicles the find callback accepts
exactMatchingVehicles(customerId, year, make, model) ==
    {v \in vehiclesOfCustomer(customerId) :
        /\ trim(toLowerCase(vehicles[v].make)) = trim(toLowerCase(make))
        /\ trim(toLowerCase(vehicles[v].model)) = trim(toLowerCase(model))
        /\ \/ vehicles[v].year = year
           \/ (vehicles[v].year = NoYear /\ year = NoYear)}

\* POST /create-vehicle: field validation
StartCreateVehicle(p) ==
    /\ proc[p].pc = "idle"
    /\ \E in \in CreateVehicleInputs :
          LET r == [Idle EXCEPT !.op = "create-vehicle", !.customerId = in.customerId,
                                !.year = in.year, !.make = in.make, !.model = in.model]
          IN proc' = [proc EXCEPT ![p] =
                 IF in.customerId = 0 \/ in.make = Missing \/ in.model = Missing
                 THEN respond(r, 400, "InvalidInput")
                 ELSE [r EXCEPT !.pc = "cv_list"]]
    /\ UNCHANGED <<store, started>>

\* findOrCreateVehicle of server.js: GET /customer/:id/vehicle and find
CreateVehicleList(p) ==
    /\ proc[p].pc = "cv_list"
    /\ LET found == exactMatchingVehicles(proc[p].customerId, proc[p].year,
                                          proc[p].make, proc[p].model)
       IN IF found # {}
          THEN \E existingVehicle \in found :
                  proc' = [proc EXCEPT ![p] =
                      respond([@ EXCEPT !.vehicleId = existingVehicle,
                                        !.vehicleCreated = FALSE], 200, "ok")]
          ELSE proc' = [proc EXCEPT ![p] = [@ EXCEPT !.pc = "cv_create"]]
    /\ UNCHANGED <<store, started>>

\* findOrCreateVehicle of server.js: POST /vehicle
CreateVehicleCreate(p) ==
    /\ proc[p].pc = "cv_create"
    /\ Len(vehicles) < MaxVehicles
    /\ vehicles' = Append(vehicles,
            [customerId |-> proc[p].customerId, make |-> proc[p].make,
             model |-> proc[p].model, size |-> "LightDuty", year |-> proc[p].year])
    /\ proc' = [proc EXCEPT ![p] =
            respond([@ EXCEPT !.vehicleId = Len(vehicles) + 1,
                              !.vehicleCreated = TRUE], 200, "ok")]
    /\ UNCHANGED <<customers, appts, started>>

\* a remote call of /create-vehicle fails
CreateVehicleFail(p) ==
    /\ proc[p].pc \in {"cv_list", "cv_create"}
    /\ \E remoteStatus \in RemoteErrorStatuses :
          proc' = [proc EXCEPT ![p] =
              respond(@, serverErrorStatus(remoteStatus, "/create-vehicle"),
                      "RemoteFailure")]
    /\ UNCHANGED <<store, started>>

ServerNext ==
    \/ StartCreateVehicle(1)
    \/ CreateVehicleList(1)
    \/ CreateVehicleCreate(1)
    \/ CreateVehicleFail(1)
    \/ Finish(1)

SpecServer == ServerInit /\ [][ServerNext]_vars

\* ------------------------------------------------------------------------
\* Properties
\* ------------------------------------------------------------------------
\* the appointments of the shop's location that are neither Canceled nor deleted
activeAtLocation(as) ==
    {a \in DOMAIN as : as[a].locationId = LOCATION_ID
                        /\ as[a].status \notin {"Canceled", "Deleted"}}

halfOpenOverlap(s1, e1, s2, e2) == s1 < e2 /\ s2 < e1

noDoubleBooking(as) ==
    \A a, b \in activeAtLocation(as) :
        a # b => ~halfOpenOverlap(as[a].startDate, as[a].endDate,
                                  as[b].startDate, as[b].endDate)

allThirtyMinutes(as) ==
    \A a \in activeAtLocation(as) : as[a].endDate = as[a].startDate + 30

\* C1: sequential requests keep a store of pairwise non-overlapping 30-minute
\* appointments at the location free of overlapping appointments: every step
\* of /booking, /update-appointment and /cancel-appointment taken from such a
\* store leads to such a store.
C1_NoDoubleBookingSequential ==
    [][(noDoubleBooking(appts) /\ allThirtyMinutes(appts))
       => (noDoubleBooking(appts') /\ allThirtyMinutes(appts'))]_vars

\* C1 witness: an update has been accepted in a store that holds two active
\* appointments at the location, one of them created by /booking.
C1_Witness ==
    /\ proc[1].op = "update" /\ proc[1].pc = "done" /\ proc[1].code = 200
    /\ Cardinality(activeAtLocation(appts)) = 2
    /\ noDoubleBooking(appts) /\ allThirtyMinutes(appts)

\* the handler positions of /booking after its overlap check has passed
BookingPassedPcs ==
    {"bk_findCustomer", "bk_createCustomer", "bk_listVehicles", "bk_createVehicle",
     "bk_createAppt"}

\* some appointment at the location, neither Canceled nor deleted, that
\* starts within 24 hours of s and overlaps [s, s + 30min), other than `except`
windowedOverlap(s, except) ==
    \E a \in activeAtLocation(appts) :
        /\ a # except
        /\ appts[a].startDate >= s - 24 * 60
        /\ appts[a].startDate <= s + 24 * 60
        /\ appts[a].startDate < s + 30
        /\ appts[a].endDate > s

C2_WitnessRejected ==
    /\ proc[1].op = "booking" /\ proc[1].pc = "done" /\ proc[1].code = 409
    /\ proc[1].startDate = T1000 + 15
    /\ \A a \in activeAtLocation(appts) :
          appts[a].startDate = T1000 /\ appts[a].endDate = T1000 + 30

\* a request ending exactly at the start of [10:30, 11:00) has been accepted
C2_WitnessEndsAtStart ==
    /\ proc[1].op = "booking" /\ proc[1].pc = "done" /\ proc[1].code = 201
    /\ proc[1].startDate = T1000
    /\ \E a \in activeAtLocation(appts) : appts[a].startDate = T1000 + 30

\* a request has been accepted although an appointment that started more
\* than 24 hours earlier overlaps it
C2_WitnessOutsideWindow ==
    /\ proc[1].op = "booking" /\ proc[1].pc = "done" /\ proc[1].code = 201
    /\ \E a \in activeAtLocation(appts) :
          /\ a # proc[1].apptId
          /\ appts[a].startDate < proc[1].startDate - 24 * 60
          /\ appts[a].endDate > proc[1].startDate

requestsOverlap(r1, r2) ==
    halfOpenOverlap(r1.startDate, r1.startDate + 30, r2.startDate, r2.startDate + 30)

\* C3: the overlap check is not a lock.  Every step a /booking request takes
\* after its appointment search has passed leaves all existing appointments
\* as they are and never answers Conflict, whatever was created meanwhile;
\* its create step appends the appointment [s, s + 30min), active at the
\* location, also when an overlapping appointment is in the store by then.
C3_RaceUndetected ==
    [][\A p \in Procs :
          (proc[p].op = "booking" /\ proc[p].pc \in BookingPassedPcs
           /\ proc'[p] # proc[p]) =>
             /\ proc'[p].outcome # "Conflict"
             /\ \A a \in DOMAIN appts : appts'[a] = appts[a]
             /\ proc'[p].code = 201 =>
                   /\ Len(appts') = Len(appts) + 1
                   /\ proc'[p].apptId = Len(appts')
                   /\ proc'[p].apptId \in activeAtLocation(appts')
                   /\ appts'[proc'[p].apptId].startDate = proc[p].startDate
                   /\ appts'[proc'[p].apptId].endDate = proc[p].startDate + 30
             /\ (proc[p].pc = "bk_createAppt" /\ proc'[p].outcome # "RemoteFailure")
                   => proc'[p].code = 201]_vars

\* C3 witness: two racing requests for overlapping intervals have both been
\* answered 201 and their two appointments stand in the store, overlapping.
C3_Witness ==
    /\ \A p \in Procs : /\ proc[p].op = "booking" /\ proc[p].pc = "done"
                        /\ proc[p].code = 201
                        /\ proc[p].apptId \in activeAtLocation(appts)
                        /\ appts[proc[p].apptId].startDate = proc[p].startDate
    /\ requestsOverlap(proc[1], proc[2])
    /\ proc[1].apptId # proc[2].apptId
    /\ ~noDoubleBooking(appts)

\* some appointment at the location, neither Canceled nor deleted, other
\* than `except`, that overlaps [s, s + 30min)
otherOverlap(s, except) ==
    \E a \in activeAtLocation(appts) :
        a # except /\ appts[a].startDate < s + 30 /\ appts[a].endDate > s

\* C4: /update-appointment never counts the appointment X it moves as a
\* conflict with itself: it answers 409 only if an appointment other than X
\* overlaps the new interval, and an accepted move leaves X at the new
\* interval, also when that interval overlaps X's old one.
C4_RescheduleSelfExclusion ==
    LET r == proc[1]
    IN (r.op = "update" /\ r.pc = "done") =>
          /\ r.code = 409 => otherOverlap(r.newDate, r.apptId)
          /\ r.code = 200 =>
                /\ appts[r.apptId].startDate = r.newDate
                /\ appts[r.apptId].endDate = r.newDate + 30

\* C4 witness: an appointment at the location has been moved by 15 minutes,
\* onto an interval that overlaps its own old interval.
C4_Witness ==
    /\ proc[1].op = "update" /\ proc[1].pc = "done" /\ proc[1].code = 200
    /\ proc[1].newDate = proc[1].originalDate + 15
    /\ appts[proc[1].apptId].locationId = LOCATION_ID
    /\ appts[proc[1].apptId].startDate = proc[1].newDate

\* an appointment at the location has been moved onto its own start time
C4_WitnessSameTime ==
    /\ proc[1].op = "update" /\ proc[1].pc = "done" /\ proc[1].code = 200
    /\ proc[1].newDate = proc[1].originalDate
    /\ appts[proc[1].apptId].locationId = LOCATION_ID

\* the steps of /update-appointment from its overlap re-check on, with
\* `overlaps(s, x)` telling whether the new interval collides: the re-check
\* answers 409 exactly when it does and changes nothing; the PUT replaces
\* the start and end of the located appointment and nothing else.
updateSteps(overlaps(_, _)) ==
    LET r == proc[1]
        rr == proc'[1]
    IN /\ (r.pc = "up_check" /\ rr # r /\ rr.outcome # "RemoteFailure") =>
             /\ rr.code = 409 <=> overlaps(r.newDate, r.apptId)
             /\ rr.code # 409 => rr.pc = "up_put"
             /\ appts' = appts
       /\ (r.pc = "up_put" /\ rr # r /\ rr.outcome # "RemoteFailure") =>
             /\ rr.code = 200
             /\ appts' = [appts EXCEPT ![r.apptId].startDate = r.newDate,
                                       ![r.apptId].endDate = r.newDate + 30]
       /\ (r.op = "update" /\ r.pc # "up_put") => appts' = appts

C5_WitnessMoved ==
    /\ proc[1].op = "update" /\ proc[1].pc = "done" /\ proc[1].code = 200
    /\ proc[1].newDate = proc[1].originalDate + 30
    /\ appts[proc[1].apptId].startDate = proc[1].newDate
    /\ Cardinality(activeAtLocation(appts)) = 2

\* an appointment of the store `as` at the location, neither Canceled nor
\* deleted and other than `except`, overlaps [s, s + 30min)
activeOverlap(as, s, except) ==
    \E a \in activeAtLocation(as) \ {except} :
        as[a].startDate < s + 30 /\ as[a].endDate > s

Range(f) == {f[k] : k \in DOMAIN f}

\* a slot of the requested shop day, inside business hours and past the
\* lead time, that the /check-availability response does not offer
withheldSlots(r) ==
    {t \in Range(candidateSlots(r.startRange)) :
        /\ shopDateString(t) = shopDateString(r.startRange)
        /\ isOpenAt(getShopTimeDetails(t))
        /\ passesLeadTime(getShopTimeDetails(t), t, r.now)
        /\ t \notin Range(r.slots)}

\* C6: a Canceled or deleted appointment never takes part in conflict
\* detection: every 409 of /booking and /update-appointment and every slot
\* withheld by /check-availability is due to an appointment at the location
\* that is neither Canceled nor deleted, and right after a successful cancel
\* of [s, s + 30min) the booking search for s finds no conflict unless
\* another such appointment overlaps it.
C6_CanceledNeverConflicts ==
    /\ [](LET r == proc[1]
          IN /\ (r.op = "booking" /\ r.pc = "done" /\ r.code = 409) =>
                   activeOverlap(appts, r.startDate, 0)
             /\ (r.op = "update" /\ r.pc = "done" /\ r.code = 409) =>
                   activeOverlap(appts, r.newDate, r.apptId)
             /\ (r.op = "check" /\ r.pc = "done" /\ r.code = 200) =>
                   \A t \in withheldSlots(r) : activeOverlap(appts, t, 0))
    /\ [][\A r \in {proc[1]} :
          \A s \in {appts[a].startDate : a \in {r.apptId} \cap DOMAIN appts} :
             (r.pc = "cn_delete" /\ proc'[1].code = 200) =>
                /\ r.apptId \notin activeAtLocation(appts')
                /\ ~activeOverlap(appts, s, r.apptId) =>
                      \A page \in Pages(appointmentsInWindow(s - windowMinutes,
                                                             s + windowMinutes)',
                                        BookingSearchLimit) :
                          conflictingAppointment(page, s, s + 30)' = {}]_vars

\* C6 witness: after a cancel deleted the only appointment, a booking for
\* 10:00 has been accepted.
C6_Witness ==
    /\ proc[1].op = "booking" /\ proc[1].pc = "done" /\ proc[1].code = 201
    /\ proc[1].startDate = T1000
    /\ Len(appts) = 2 /\ appts[1] = DeletedAppointment
    /\ appts[2].startDate = T1000

\* a booking for 10:00 has been accepted next to a Canceled [10:00, 10:30)
C6_WitnessCanceled ==
    /\ proc[1].op = "booking" /\ proc[1].pc = "done" /\ proc[1].code = 201
    /\ \E a \in DOMAIN appts :
          /\ appts[a].status = "Canceled" /\ appts[a].locationId = LOCATION_ID
          /\ appts[a].startDate = proc[1].startDate

\* /check-availability offers 10:00 although a Canceled appointment holds it,
\* and withholds another slot because of an active one
C6_WitnessSlotOffered ==
    /\ proc[1].op = "check" /\ proc[1].pc = "done" /\ proc[1].code = 200
    /\ T1000 \in Range(proc[1].slots)
    /\ \E a \in DOMAIN appts :
          appts[a].status \in {"Canceled", "Deleted"}
    /\ withheldSlots(proc[1]) # {}

\* the appointments findAppointmentByDate can return for a customer and a
\* start: the customer's, neither Canceled nor deleted, starting then
locatable(as, customerId, date) ==
    {a \in DOMAIN as : /\ as[a].customerId = customerId
                       /\ as[a].status \notin {"Canceled", "Deleted"}
                       /\ as[a].startDate = date}

C7_WitnessUpdateAfterCancel ==
    /\ proc[1].op = "cancel" /\ proc[1].pc = "done" /\ proc[1].code = 200
    /\ proc[2].op = "update" /\ proc[2].pc = "done"
    /\ proc[2].apptId = proc[1].apptId
    /\ proc[2].outcome \in {"ok", "RemoteFailure"}
    /\ appts[proc[2].apptId] = DeletedAppointment

\* a second cancel has answered 200: the customer had two appointments
\* starting at originalDate
C7_WitnessSecondCancelFound ==
    /\ proc[1].op = "cancel" /\ proc[1].pc = "done" /\ proc[1].code = 200
    /\ proc[2].op = "cancel" /\ proc[2].pc = "done" /\ proc[2].code = 200
    /\ proc[2].customerId = proc[1].customerId
    /\ proc[2].originalDate = proc[1].originalDate
    /\ proc[2].apptId # proc[1].apptId

John == <<"J", "o", "h", "n">>

\* the pcs of a booking whose findOrCreateCustomer call has returned
CustomerResolvedPcs == {"bk_listVehicles", "bk_createVehicle", "bk_createAppt"}

\* C8: findOrCreateCustomer called with no customer for the phone creates
\* exactly one record and reports wasCreated = true; every later call for
\* the phone, requests not interleaving, returns that record's id with
\* wasCreated = false and issues no createCustomer; so after any call the
\* phone has exactly one customer, the one returned.
C8_ResolverIdempotent ==
    /\ [](\A r \in {proc[1]} :
            (r.op = "booking" /\ r.pc \in CustomerResolvedPcs) =>
                customersByPhone(normalizeToE164(r.phone)) = {r.customerId})
    /\ [][\A r \in {proc[1]} : \A e164Phone \in {normalizeToE164(r.phone)} :
            /\ (/\ r.pc = "bk_findCustomer" /\ proc'[1] # r
                /\ proc'[1].outcome # "RemoteFailure") =>
                  IF customersByPhone(e164Phone) = {}
                  THEN proc'[1].pc = "bk_createCustomer"
                  ELSE /\ proc'[1].pc = "bk_listVehicles"
                       /\ customersByPhone(e164Phone) = {proc'[1].customerId}
                       /\ proc'[1].customerCreated = FALSE
            /\ (/\ r.pc = "bk_createCustomer" /\ proc'[1] # r
                /\ proc'[1].outcome # "RemoteFailure") =>
                  /\ customersByPhone(e164Phone) = {}
                  /\ Len(customers') = Len(customers) + 1
                  /\ customers'[Len(customers')].phone = e164Phone
                  /\ proc'[1].customerId = Len(customers')
                  /\ proc'[1].customerCreated = TRUE
            /\ customers' # customers => r.pc = "bk_createCustomer"]_vars

\* C8 witness: a second call with the same name and phone has returned the
\* customer that the first call created, with wasCreated = false.
C8_Witness ==
    /\ proc[1].op = "booking" /\ proc[1].pc = "bk_listVehicles"
    /\ proc[1].phone = PhoneB /\ proc[1].name = JohnDoe
    /\ proc[1].customerCreated = FALSE
    /\ customers[proc[1].customerId].firstName = John
    /\ customersByPhone(normalizeToE164(PhoneB)) = {proc[1].customerId}

\* the first call has created the customer
C8_WitnessCreated ==
    /\ proc[1].op = "booking" /\ proc[1].pc = "bk_listVehicles"
    /\ proc[1].phone = PhoneB /\ proc[1].customerCreated = TRUE
    /\ customersByPhone(normalizeToE164(PhoneB)) = {proc[1].customerId}

\* the ten digits of a US number, whatever its formatting and country code
nationalNumber(phone) ==
    LET d == digitsOnly(phone)
    IN IF Len(d) > 10 THEN SubSeq(d, Len(d) - 9, Len(d)) ELSE d

\* raw spellings of one US number
PhoneAFormats ==
    { PhoneA, PhoneAFormatted,
      <<"5", "5", "5", "-", "1", "2", "3", "-", "4", "5", "6", "7">>,
      <<"+", "1", " ", "5", "5", "5", " ", "1", "2", "3", " ", "4", "5", "6", "7">> }

\* C9: requests not interleaving, the store never holds two customers for
\* one phone number, whatever the formatting or leading country code of the
\* raw strings: all spellings of a number have one canonical form, and a
\* booking whose number already has a customer never creates one.
C9_NoDuplicateCustomer ==
    /\ [](/\ \A c1, c2 \in DOMAIN customers :
                nationalNumber(customers[c1].phone) = nationalNumber(customers[c2].phone)
                    => c1 = c2
          /\ \A f \in PhoneAFormats : normalizeToE164(f) = <<"+", "1">> \o PhoneA)
    /\ [][\A r \in {proc[1]} :
            (/\ r.pc = "bk_findCustomer"
             /\ \E c \in DOMAIN customers :
                   nationalNumber(customers[c].phone) = nationalNumber(r.phone))
            => proc'[1].pc # "bk_createCustomer"]_vars

\* C9 witness: a booking giving the number as "1 (555) 123-4567" has been
\* accepted for the customer the core created for that number, next to
\* the customer of another number.
C9_Witness ==
    /\ proc[1].op = "booking" /\ proc[1].pc = "done" /\ proc[1].code = 201
    /\ proc[1].phone = PhoneAFormatted /\ proc[1].customerCreated = FALSE
    /\ customers[proc[1].customerId].firstName = John
    /\ customers[proc[1].customerId].phone = <<"+", "1">> \o PhoneA
    /\ Len(customers) = 2

\* C10: find-then-create takes no lock: the create step of findOrCreateCustomer
\* never looks at the store again, so it appends a record and reports
\* wasCreated = true also when a racing call has created a customer for the
\* phone since its search; two calls that both report wasCreated = true for
\* one canonical phone leave two records for it.
C10_DuplicateCreationRace ==
    /\ [](\A p, q \in Procs :
            (/\ p # q
             /\ proc[p].op = "booking" /\ proc[q].op = "booking"
             /\ proc[p].customerCreated /\ proc[q].customerCreated
             /\ normalizeToE164(proc[p].phone) = normalizeToE164(proc[q].phone))
            => /\ proc[p].customerId # proc[q].customerId
               /\ {proc[p].customerId, proc[q].customerId}
                     \subseteq customersByPhone(normalizeToE164(proc[p].phone)))
    /\ [][\A p \in Procs :
            (/\ proc[p].pc = "bk_createCustomer" /\ proc'[p] # proc[p]
             /\ proc'[p].outcome # "RemoteFailure") =>
               /\ Len(customers') = Len(customers) + 1
               /\ customers'[Len(customers')].phone = normalizeToE164(proc[p].phone)
               /\ SubSeq(customers', 1, Len(customers)) = customers
               /\ proc'[p].customerId = Len(customers')
               /\ proc'[p].customerCreated = TRUE]_vars

\* C10 witness: two interleaved bookings for one canonical phone have both
\* created a customer, and the store holds two records for that phone.
C10_Witness ==
    /\ proc[1].op = "booking" /\ proc[2].op = "booking"
    /\ proc[1].customerCreated /\ proc[2].customerCreated
    /\ normalizeToE164(proc[1].phone) = normalizeToE164(proc[2].phone)
    /\ proc[1].customerId # proc[2].customerId
    /\ Cardinality(customersByPhone(normalizeToE164(proc[1].phone))) = 2

\* the customer's vehicles whose make and model are both within fuzzy
\* tolerance of the requested ones
fuzzyOwned(vs, customerId, make, model) ==
    {v \in DOMAIN vs : /\ vs[v].customerId = customerId
                       /\ isFuzzyMatch(vs[v].make, make)
                       /\ isFuzzyMatch(vs[v].model, model)}

\* the pcs of a booking whose findOrCreateVehicle call has returned
VehicleResolvedPcs == {"bk_createAppt"}

\* C11: findOrCreateVehicle returns a vehicle of the customer whose make and
\* model both fuzzy-match the request, without creating one, whenever there
\* is such a vehicle, and otherwise creates exactly one vehicle (size
\* LightDuty) with the requested make and model; requests not interleaving,
\* the request then has exactly one matching vehicle, the one returned, so
\* a second call returns the same id with wasCreated = false.
C11_VehicleResolverIdempotent ==
    /\ [](\A r \in {proc[1]} :
            (r.op = "booking" /\ r.pc \in VehicleResolvedPcs) =>
                fuzzyOwned(vehicles, r.customerId, r.make, r.model) = {r.vehicleId})
    /\ [][\A r \in {proc[1]} :
            /\ vehicles' # vehicles => r.pc = "bk_createVehicle"
            /\ (/\ r.pc \in {"bk_listVehicles", "bk_createVehicle"} /\ proc'[1] # r
                /\ proc'[1].outcome # "RemoteFailure") =>
                \A found \in {fuzzyOwned(vehicles, r.customerId, r.make, r.model)} :
                  IF r.pc = "bk_listVehicles"
                  THEN IF found = {}
                       THEN proc'[1].pc = "bk_createVehicle"
                       ELSE /\ proc'[1].pc = "bk_createAppt"
                            /\ proc'[1].vehicleId \in found
                            /\ proc'[1].vehicleCreated = FALSE
                  ELSE /\ found = {}
                       /\ vehicles' = Append(vehicles,
                             [customerId |-> r.customerId, make |-> r.make,
                              model |-> r.model, size |-> "LightDuty"])
                       /\ proc'[1].vehicleId = Len(vehicles')
                       /\ proc'[1].vehicleCreated = TRUE]_vars

\* C11 witness: a booking naming the model "Camary" has been given the
\* customer's existing "Camry" instead of a new vehicle.
C11_Witness ==
    /\ proc[1].op = "booking" /\ proc[1].pc = "bk_createAppt"
    /\ proc[1].model = Camary /\ proc[1].vehicleCreated = FALSE
    /\ vehicles[proc[1].vehicleId].model = Camry
    /\ Cardinality(vehiclesOfCustomer(proc[1].customerId)) = 1

\* a second call with the same make and model has returned the vehicle the
\* first call created, with wasCreated = false
C11_WitnessSecondCall ==
    /\ proc[1].op = "booking" /\ proc[1].pc = "bk_createAppt"
    /\ proc[1].model = Civic /\ proc[1].vehicleCreated = FALSE
    /\ vehicles[proc[1].vehicleId].model = Civic
    /\ vehicles[proc[1].vehicleId].size = "LightDuty"

\* a vehicle has been created next to one that does not match
C11_WitnessCreated ==
    /\ proc[1].op = "booking" /\ proc[1].pc = "bk_createAppt"
    /\ proc[1].model = Civic /\ proc[1].vehicleCreated = TRUE
    /\ Cardinality(vehiclesOfCustomer(proc[1].customerId)) = 2

\* the customer's vehicles with the requested make and model (case and
\* surrounding blanks aside)
sameMakeModel(vs, customerId, make, model) ==
    {v \in DOMAIN vs : /\ vs[v].customerId = customerId
                       /\ trim(toLowerCase(vs[v].make)) = trim(toLowerCase(make))
                       /\ trim(toLowerCase(vs[v].model)) = trim(toLowerCase(model))}

\* the steps of the exact-match findOrCreateVehicle, with `reusable` the
\* vehicles the request may be given: one of them is returned and nothing
\* is created whenever there is one, and otherwise one vehicle is created
\* with the request's make, model and year.
vehicleSteps(reusable(_)) ==
    \A r \in {proc[1]} :
       /\ (r.pc = "cv_list" /\ proc'[1] # r /\ proc'[1].outcome # "RemoteFailure") =>
             IF reusable(r) = {}
             THEN proc'[1].pc = "cv_create"
             ELSE /\ proc'[1].pc = "done" /\ proc'[1].code = 200
                  /\ proc'[1].vehicleId \in reusable(r)
                  /\ proc'[1].vehicleCreated = FALSE
       /\ (r.pc = "cv_create" /\ proc'[1] # r /\ proc'[1].outcome # "RemoteFailure") =>
             /\ reusable(r) = {}
             /\ Len(vehicles') = Len(vehicles) + 1
             /\ SubSeq(vehicles', 1, Len(vehicles)) = vehicles
             /\ vehicles'[Len(vehicles')].year = r.year
             /\ vehicles'[Len(vehicles')].customerId = r.customerId
             /\ proc'[1].vehicleId = Len(vehicles')
             /\ proc'[1].vehicleCreated = TRUE
       /\ vehicles' # vehicles => r.pc = "cv_create"

\* as stated: the year decides only when both sides have one
yearLenient(r) ==
    {v \in sameMakeModel(vehicles, r.customerId, r.make, r.model) :
        (vehicles[v].year # NoYear /\ r.year # NoYear) => vehicles[v].year = r.year}

\* as the code has it: the years are equal, or both are missing
yearStrict(r) ==
    {v \in sameMakeModel(vehicles, r.customerId, r.make, r.model) :
        vehicles[v].year = r.year}

\* C12 as stated: a vehicle with the requested make and model is reused
\* unless both it and the request have a year and the years differ; a year
\* missing on either side does not block the match.
C12_YearMissingNeverBlocks == [][vehicleSteps(yearLenient)]_vars

\* C12 amended: a vehicle with the requested make and model is reused only
\* if its year equals the requested year or both years are missing; a
\* different year, or a year missing on exactly one side, is no match and a
\* new vehicle is created.
C12_YearMustAgree == [][vehicleSteps(yearStrict)]_vars

\* C12 witness: a request for year 2021 has created a vehicle although the
\* customer has the same make and model with year 2020.
C12_Witness ==
    /\ proc[1].op = "create-vehicle" /\ proc[1].pc = "done" /\ proc[1].code = 200
    /\ proc[1].year = Year2021 /\ proc[1].vehicleCreated = TRUE
    /\ vehicles[proc[1].vehicleId].year = Year2021
    /\ \E v \in sameMakeModel(vehicles, proc[1].customerId, proc[1].make, proc[1].model) :
          vehicles[v].year = Year2020

\* a request without a year has created a vehicle although the customer has
\* the same make and model with a year
C12_WitnessOneSideMissing ==
    /\ proc[1].op = "create-vehicle" /\ proc[1].pc = "done" /\ proc[1].code = 200
    /\ proc[1].year = NoYear /\ proc[1].vehicleCreated = TRUE
    /\ \E v \in sameMakeModel(vehicles, proc[1].customerId, proc[1].make, proc[1].model) :
          vehicles[v].year = Year2020

\* a request has been given the existing vehicle: equal years, or no year on
\* both sides
C12_WitnessReused ==
    /\ proc[1].op = "create-vehicle" /\ proc[1].pc = "done" /\ proc[1].code = 200
    /\ proc[1].vehicleCreated = FALSE
    /\ proc[1].model = CamryShouted
    /\ vehicles[proc[1].vehicleId].year = proc[1].year

\* C13: findAppointmentByDate returns an appointment of the customer that is
\* neither Canceled nor deleted and starts exactly at the target whenever the
\* customer has one, and none otherwise, for every target that is an
\* instant; an appointment that only contains the target or starts at any
\* other instant is never returned.
C13_LocatorExactMatch ==
    [][\A r \in {proc[1]} :
          (/\ r.pc = "findAppt" /\ proc'[1] # r
           /\ ~isNaN(parseDate(r.originalDate))
           /\ proc'[1].outcome # "RemoteFailure") =>
             \A hits \in {locatable(appts, r.customerId, parseDate(r.originalDate))} :
                IF hits = {}
                THEN proc'[1].outcome = "NotFound" /\ proc'[1].apptId = 0
                ELSE proc'[1].apptId \in hits /\ proc'[1].outcome # "NotFound"]_vars

\* what the locator does return: nothing, or an appointment of the customer,
\* neither Canceled nor deleted, starting exactly at the target; and it
\* returns one whenever there is one and the customer's appointments fit
\* the page of the search
LocatorWithinPage ==
    [][\A r \in {proc[1]} :
          (/\ r.pc = "findAppt" /\ proc'[1] # r
           /\ ~isNaN(parseDate(r.originalDate))
           /\ proc'[1].outcome # "RemoteFailure") =>
             \A hits \in {locatable(appts, r.customerId, parseDate(r.originalDate))} :
                /\ proc'[1].apptId \in hits \cup {0}
                /\ proc'[1].apptId = 0 <=> proc'[1].outcome = "NotFound"
                /\ (/\ hits # {}
                    /\ Cardinality(appointmentsOfCustomer(r.customerId))
                          <= LocatorSearchLimit)
                   => proc'[1].apptId # 0]_vars

\* C13 witness: /cancel-appointment has answered NotFound although the
\* customer has an appointment starting exactly at originalDate.
C13_WitnessMissed ==
    /\ proc[1].op = "cancel" /\ proc[1].pc = "done" /\ proc[1].outcome = "NotFound"
    /\ proc[1].customerId # 0
    /\ locatable(appts, proc[1].customerId, proc[1].originalDate) # {}

\* the locator has returned the appointment starting exactly at the target
C13_WitnessFound ==
    /\ proc[1].op = "cancel" /\ proc[1].pc = "cn_delete"
    /\ proc[1].apptId \in locatable(appts, proc[1].customerId, proc[1].originalDate)

\* a target inside [10:00, 10:30) has found nothing
C13_WitnessContained ==
    /\ proc[1].op = "cancel" /\ proc[1].pc = "done" /\ proc[1].outcome = "NotFound"
    /\ proc[1].originalDate = T1000 + 15
    /\ \E a \in appointmentsOfCustomer(proc[1].customerId) :
          appts[a].startDate = T1000 /\ appts[a].endDate = T1000 + 30

\* shop-local wall clock of an instant, in minutes since 1970-01-01 00:00
localMinutes(t) == t + shopUtcOffset(t)
localWeekday(t) == ((localMinutes(t) \div 1440) + 4) % 7
localMinuteOfDay(t) == localMinutes(t) % 1440
localDay(t) == localMinutes(t) \div 1440

\* a /check-availability request has been answered with its slot list
slotsReturned(r) == r.op = "check" /\ r.pc = "done" /\ r.code = 200

\* C14: every slot returned by /check-availability lies inside the business
\* hours of its own shop-local weekday: minute of day in [480, 990) Monday to
\* Friday, in [540, 660) on Saturday, and never on a Sunday.
C14_SlotsWithinBusinessHours ==
    slotsReturned(proc[1]) =>
        \A t \in Range(proc[1].slots) :
            /\ localWeekday(t) # 0
            /\ localWeekday(t) \in 1..5 =>
                  480 <= localMinuteOfDay(t) /\ localMinuteOfDay(t) < 990
            /\ localWeekday(t) = 6 =>
                  540 <= localMinuteOfDay(t) /\ localMinuteOfDay(t) < 660

\* C14 witness: a returned list holds the last slot of a weekday, 16:00.
C14_Witness ==
    /\ slotsReturned(proc[1])
    /\ \E t \in Range(proc[1].slots) :
          localWeekday(t) \in 1..5 /\ localMinuteOfDay(t) = 960

\* a returned list holds the first and the last slot of a Saturday
C14_WitnessSaturday ==
    /\ slotsReturned(proc[1])
    /\ \E t, t2 \in Range(proc[1].slots) :
          /\ localWeekday(t) = 6 /\ localMinuteOfDay(t) = 630
          /\ localWeekday(t2) = 6 /\ localMinuteOfDay(t2) = 570

\* C15: the target date of /check-availability is the shop-local calendar
\* date of the reference instant startRange, and every returned slot falls
\* on that shop-local date, also when the reference instant's UTC date is
\* another one.
C15_SlotsOnTargetDate ==
    slotsReturned(proc[1]) =>
        \A t \in Range(proc[1].slots) : localDay(t) = localDay(proc[1].startRange)

\* C15 witness: slots have been returned for a reference instant whose UTC
\* date is the day after its shop-local date.
C15_Witness ==
    /\ slotsReturned(proc[1])
    /\ proc[1].startRange \div 1440 = localDay(proc[1].startRange) + 1
    /\ proc[1].slots # <<>>

\* the instants of the 30-minute grid on the shop-local day of the reference
\* instant that are inside business hours, pass the Saturday lead time and
\* overlap no appointment at the location that is neither Canceled nor deleted
freeGridSlots(r) ==
    {t \in (r.startRange - 2 * 1440)..(r.startRange + 2 * 1440) :
        /\ t % 30 = 0
        /\ localDay(t) = localDay(r.startRange)
        /\ \/ localWeekday(t) \in 1..5 /\ 480 <= localMinuteOfDay(t)
                                       /\ localMinuteOfDay(t) < 990
           \/ localWeekday(t) = 6 /\ 540 <= localMinuteOfDay(t)
                                  /\ localMinuteOfDay(t) < 660
        /\ localWeekday(t) = 6 => t - r.now >= 24 * 60
        /\ ~activeOverlap(appts, t, 0)}

\* C16: /check-availability is complete: for every reference instant, every
\* instant of the 30-minute grid on the target date that is inside business
\* hours, passes the lead-time rule and overlaps no appointment at the
\* location, Canceled ones aside, is in the returned list.
C16_SlotsComplete ==
    slotsReturned(proc[1]) => freeGridSlots(proc[1]) \subseteq Range(proc[1].slots)

\* the same for the reference instants whose UTC date is their shop-local date
CompleteWhenDatesAgree ==
    (/\ slotsReturned(proc[1])
     /\ proc[1].startRange \div 1440 = localDay(proc[1].startRange))
    => freeGridSlots(proc[1]) \subseteq Range(proc[1].slots)

\* C16 witness: the list returned for Tuesday 19:00 shop time lacks the free
\* slot at 08:00 of that Tuesday.
C16_WitnessMissing ==
    /\ slotsReturned(proc[1])
    /\ proc[1].startRange = RefTuesdayEvening
    /\ \E t \in freeGridSlots(proc[1]) :
          localMinuteOfDay(t) = 480 /\ t \notin Range(proc[1].slots)

\* the list returned for a reference instant at 10:00 of a Tuesday holds all
\* seventeen slots of the day
C16_WitnessComplete ==
    /\ slotsReturned(proc[1])
    /\ proc[1].startRange = T1000
    /\ Len(proc[1].slots) = 17
    /\ freeGridSlots(proc[1]) = Range(proc[1].slots)

\* C17: the slot list returned by /check-availability is strictly increasing
\* and the difference between consecutive slots is a positive multiple of 30
\* minutes, so no instant occurs twice and any two slots are at least 30
\* minutes apart.
C17_SlotsStrictlyIncreasing ==
    slotsReturned(proc[1]) =>
        \A i \in 1..(Len(proc[1].slots) - 1) :
            /\ proc[1].slots[i + 1] - proc[1].slots[i] >= 30
            /\ (proc[1].slots[i + 1] - proc[1].slots[i]) % 30 = 0

\* C17 witness: a returned list has consecutive slots 30 minutes apart and,
\* around an appointment, consecutive slots 60 minutes apart.
C17_Witness ==
    /\ slotsReturned(proc[1])
    /\ \E i, j \in 1..(Len(proc[1].slots) - 1) :
          /\ proc[1].slots[i + 1] - proc[1].slots[i] = 30
          /\ proc[1].slots[j + 1] - proc[1].slots[j] = 60

\* the appointments that checkSlotAvailability / the /booking overlap check
\* can report against [t, t + 30min), over every page the search may answer
commitConflicts(t) ==
    UNION {slotConflicts(page, t, t + durationMinutes, 0) :
              page \in Pages(appointmentsInWindow(t - windowMinutes, t + windowMinutes),
                             BookingSearchLimit)}

\* C18: slot generation and the commit-time check agree: every slot returned
\* by /check-availability is free for checkSlotAvailability / the /booking
\* overlap check run against the same store, and overlaps no appointment of
\* the location that is neither Canceled nor deleted.
C18_SlotsAgreeWithOverlapCheck ==
    slotsReturned(proc[1]) =>
        \A t \in Range(proc[1].slots) :
            /\ commitConflicts(t) = {}
            /\ ~activeOverlap(appts, t, 0)

\* the active appointments of the location that the search of
\* /check-availability leaves out for this request
unfetched(r) ==
    activeAtLocation(appts) \ appointmentsWithin(searchLoopStart(r.startRange),
                                                 searchLoopEnd(r.startRange))

\* When the search of /check-availability returns every active appointment of
\* the location, the returned slots are free for the commit-time check.
AgreeWhenAllFetched ==
    (slotsReturned(proc[1]) /\ unfetched(proc[1]) = {}) =>
        \A t \in Range(proc[1].slots) :
            commitConflicts(t) = {} /\ ~activeOverlap(appts, t, 0)

\* C18 witness: a returned slot is one that the commit-time check rejects.
C18_WitnessOfferedButTaken ==
    /\ slotsReturned(proc[1])
    /\ \E t \in Range(proc[1].slots) :
          commitConflicts(t) # {} /\ activeOverlap(appts, t, 0)

\* C18 witness: with every active appointment fetched, slots are returned
\* around an appointment and each of them is free at commit time.
C18_WitnessAgree ==
    /\ slotsReturned(proc[1])
    /\ unfetched(proc[1]) = {}
    /\ activeAtLocation(appts) # {}
    /\ withheldSlots(proc[1]) # {}
    /\ proc[1].slots # <<>>

\* the candidates of the request that fall on the shop-local day of
\* startRange, inside the business hours of a Monday-to-Friday, and that no
\* fetched appointment overlaps
weekdayCandidates(r) ==
    {t \in Range(candidateSlots(r.startRange)) :
        /\ localDay(t) = localDay(r.startRange)
        /\ localWeekday(t) \in 1..5
        /\ 480 <= localMinuteOfDay(t) /\ localMinuteOfDay(t) < 990
        /\ ~\E a \in appointmentsWithin(searchLoopStart(r.startRange),
                                        searchLoopEnd(r.startRange)) :
               appts[a].startDate < t + 30 /\ appts[a].endDate > t}

\* C19: every returned slot whose shop-local weekday is Saturday starts at
\* least 24 hours after the instant `now` read during the request, and the
\* slots of Monday to Friday are not filtered by `now`: every such candidate
\* is returned whatever its distance from `now`.
C19_SaturdayLeadTime ==
    slotsReturned(proc[1]) =>
        /\ \A t \in Range(proc[1].slots) :
              localWeekday(t) = 6 => t - proc[1].now >= 24 * 60
        /\ weekdayCandidates(proc[1]) \subseteq Range(proc[1].slots)

\* C19 witness: on a Saturday the slot exactly 24 hours after `now` is
\* returned and the free slot half an hour earlier is not.
C19_Witness ==
    /\ slotsReturned(proc[1])
    /\ activeAtLocation(appts) = {}
    /\ \E t \in Range(proc[1].slots) :
          /\ localWeekday(t) = 6
          /\ t - proc[1].now = 24 * 60
          /\ localMinuteOfDay(t - 30) >= 540
          /\ (t - 30) \notin Range(proc[1].slots)

\* C19 witness: a Friday response offers a slot less than 24 hours after
\* `now`.
C19_WitnessWeekday ==
    /\ slotsReturned(proc[1])
    /\ \E t \in Range(proc[1].slots) :
          /\ localWeekday(t) = 5
          /\ t > proc[1].now /\ t - proc[1].now < 24 * 60

\* C19 witness: a Tuesday response offers a slot that lies before `now`.
C19_WitnessPast ==
    /\ slotsReturned(proc[1])
    /\ \E t \in Range(proc[1].slots) :
          /\ localWeekday(t) = 2
          /\ t < proc[1].now

\* the request asks for a day the shop is closed: the shop-local weekday of
\* startRange is Sunday
closedDayRequested(r) ==
    /\ r.op = "check"
    /\ r.startRange \in ReferenceInputs
    /\ localWeekday(r.startRange) = 0

\* C20: when the shop-local date of startRange is a Sunday, the day the
\* policy closes entirely, /check-availability answers a success with zero
\* slots and not an error (the appointment search having answered).
C20_ClosedDayEmptySuccess ==
    [][(closedDayRequested(proc[1]) /\ proc[1].pc = "ca_search"
          /\ proc'[1].pc = "done" /\ proc'[1].outcome # "RemoteFailure")
       => (proc'[1].code = 200 /\ proc'[1].slots = <<>>)]_vars

\* C20 witness: a request for Sunday has been answered 200 with no slot.
C20_Witness ==
    /\ closedDayRequested(proc[1])
    /\ slotsReturned(proc[1])
    /\ proc[1].slots = <<>>

\* C20 witness: the same for a reference on Monday 03:00Z, which is Sunday
\* evening in the shop.
C20_WitnessSundayEvening ==
    /\ C20_Witness
    /\ proc[1].startRange = RefSundayEvening

\* the handler positions of /booking at which a create call is issued
BookingCreatePcs == {"bk_createCustomer", "bk_createVehicle", "bk_createAppt"}

\* the request of r carries every required field and a parseable startDate
bookingInputValid(r) ==
    /\ r.phone # Missing /\ r.make # Missing /\ r.model # Missing
    /\ r.title # Missing /\ r.name # Missing
    /\ r.startDate >= 0

C21_WitnessInvalid ==
    /\ proc[1].op = "booking" /\ proc[1].pc = "done" /\ proc[1].code = 400
    /\ proc[1].startDate = BadDate
    /\ customers = <<>> /\ vehicles = <<>> /\ appts = <<>>

\* C21 witness: an accepted /booking has created customer, vehicle and
\* appointment.
C21_WitnessCreated ==
    /\ proc[1].op = "booking" /\ proc[1].pc = "done" /\ proc[1].code = 201
    /\ proc[1].customerCreated /\ proc[1].vehicleCreated

\* C22: /booking answers InvalidInput (400) for a request that lacks one of
\* phone, make, model, title, startDate, name or whose startDate is no date,
\* and issues no remote call for it: the response comes from the first step
\* of the handler and no position of a remote call is ever reached with
\* such a request.
C22_BookingInvalidInput ==
    /\ [](\A p \in Procs :
            (proc[p].op = "booking" /\ ~bookingInputValid(proc[p])) =>
                /\ proc[p].pc = "done"
                /\ proc[p].code = 400 /\ proc[p].outcome = "InvalidInput")
    /\ [][\A p \in Procs :
            (proc'[p].op = "booking" /\ ~bookingInputValid(proc'[p])) =>
                (proc[p].pc = "idle" /\ store' = store)]_vars

\* C22 witness: each of the six fields has been missing in a request
\* answered 400; this one lacks the title.
C22_Witness ==
    /\ proc[1].op = "booking" /\ proc[1].pc = "done" /\ proc[1].code = 400
    /\ proc[1].title = Missing /\ proc[1].phone # Missing

\* C22 witness: a request with all fields and an unparseable startDate has
\* been answered 400.
C22_WitnessBadDate ==
    /\ proc[1].op = "booking" /\ proc[1].pc = "done" /\ proc[1].code = 400
    /\ proc[1].startDate = BadDate /\ proc[1].phone # Missing

\* a request of an operation other than /booking that carries a string that
\* is no date in one of its date fields
badDateRequest(r) ==
    /\ r.op \in {"update", "cancel", "verify", "check"}
    /\ BadDate \in {r.originalDate, r.newDate, r.startRange}

\* C23: in /update-appointment, /cancel-appointment, /verify-appointment and
\* /check-availability an unparseable date is answered InvalidInput (400) and
\* no remote call is attempted before that answer: the request is answered
\* at the handler's first step.
C23_BadDateInvalidInput ==
    [][\A p \in Procs :
          badDateRequest(proc'[p]) =>
              /\ proc[p].pc \in {"idle", "done"}
              /\ proc'[p].pc = "done" => (proc'[p].code = 400
                                           /\ proc'[p].outcome = "InvalidInput")
              /\ proc'[p].pc # "done" => proc'[p].pc = "idle"]_vars

\* A request carrying an unparseable date never changes the store.
BadDateNeverMutates ==
    [][\A p \in Procs : badDateRequest(proc[p]) => store' = store]_vars

\* C23 witness: /cancel-appointment with an unparseable originalDate has
\* been answered 500 after the customer and appointment searches.
C23_WitnessCancel500 ==
    /\ proc[1].op = "cancel" /\ proc[1].originalDate = BadDate
    /\ proc[1].pc = "done" /\ proc[1].code = 500 /\ proc[1].outcome = "LocalError"
    /\ proc[1].customerId # 0

\* C23 witness: /cancel-appointment with an unparseable originalDate has
\* been answered 404 for a caller without a customer record.
C23_WitnessCancel404 ==
    /\ proc[1].op = "cancel" /\ proc[1].originalDate = BadDate
    /\ proc[1].pc = "done" /\ proc[1].code = 404

\* C23 witness: /update-appointment with an unparseable newDate has been
\* answered 400, after the appointment was located.
C23_WitnessUpdateLate400 ==
    /\ proc[1].op = "update" /\ proc[1].newDate = BadDate
    /\ proc[1].pc = "done" /\ proc[1].code = 400 /\ proc[1].apptId # 0

\* C23 witness: /check-availability with an unparseable startRange has been
\* answered 500.
C23_WitnessCheck500 ==
    /\ proc[1].op = "check" /\ proc[1].startRange = BadDate
    /\ proc[1].pc = "done" /\ proc[1].code = 500

\* no customer of the store has the phone of the request
noCustomerFor(r) ==
    \A c \in DOMAIN customers : customers[c].phone # normalizeToE164(r.phone)

\* the positions of /cancel-appointment and /update-appointment that follow
\* a located appointment
LocatedPcs == {"cn_delete", "up_check", "up_put"}

\* C24: /cancel-appointment and /update-appointment for a phone with no
\* customer, or for a customer with no appointment, neither Canceled nor
\* deleted, starting exactly at originalDate, answer NotFound (404, never
\* 409) unless a remote call fails, and issue no delete and no update call:
\* the store changes only after an appointment of the customer starting at
\* originalDate has been located.
C24_NotFoundMutatesNothing ==
    /\ [](\A p \in Procs :
            (proc[p].op \in {"cancel", "update"} /\ proc[p].pc \in LocatedPcs) =>
                proc[p].apptId \in locatable(appts, proc[p].customerId,
                                             proc[p].originalDate))
    /\ [][\A p \in Procs :
            /\ (proc[p].op \in {"cancel", "update"} /\ store' # store) =>
                  proc[p].pc \in {"cn_delete", "up_put"}
            /\ (proc[p].op \in {"cancel", "update"} /\ proc[p].originalDate >= 0
                  /\ proc'[p] # proc[p]
                  /\ \/ proc[p].pc = "findCustomer" /\ noCustomerFor(proc[p])
                     \/ proc[p].pc = "findAppt"
                          /\ locatable(appts, proc[p].customerId,
                                       proc[p].originalDate) = {}
                  /\ proc'[p].outcome # "RemoteFailure") =>
                  /\ proc'[p].pc = "done"
                  /\ proc'[p].code = 404 /\ proc'[p].outcome = "NotFound"
                  /\ store' = store]_vars

\* C24 witness: /cancel-appointment of a known customer for a start at which
\* the customer has no appointment has been answered 404; the customer's
\* appointment at another start is still there.
C24_Witness ==
    /\ proc[1].op = "cancel" /\ proc[1].pc = "done" /\ proc[1].code = 404
    /\ proc[1].customerId # 0
    /\ proc[1].originalDate >= 0
    /\ locatable(appts, proc[1].customerId, proc[1].originalDate) = {}
    /\ \E a \in DOMAIN appts : /\ appts[a].customerId = proc[1].customerId
                               /\ appts[a].status = "Scheduled"

\* C24 witness: /update-appointment for a phone without a customer has been
\* answered 404.
C24_WitnessNoCustomer ==
    /\ proc[1].op = "update" /\ proc[1].pc = "done" /\ proc[1].code = 404
    /\ noCustomerFor(proc[1]) /\ proc[1].customerId = 0

\* C24 witness: /update-appointment whose appointment at originalDate is
\* Canceled has been answered 404.
C24_WitnessCanceled ==
    /\ proc[1].op = "update" /\ proc[1].pc = "done" /\ proc[1].code = 404
    /\ \E a \in DOMAIN appts : /\ appts[a].customerId = proc[1].customerId
                               /\ appts[a].startDate = proc[1].originalDate
                               /\ appts[a].status = "Canceled"

\* the step on which handler p catches the error of a remote call
catches(p) == proc[p].error = NoError /\ proc'[p].error # NoError

\* the translation of a caught error that answered with a status: 403
\* becomes 500 with the fixed message, any other status is kept together
\* with the remote's message when it has one
translated(r) ==
    IF r.error.status = 403
    THEN /\ r.code = 500
         /\ r.message = "API Authorization Forbidden. Check your API Key."
         /\ r.message # r.error.message
    ELSE /\ r.code = r.error.status
         /\ r.error.message # "" => r.message = r.error.message

\* C25: every error response of the remote is translated by one rule: status
\* 403 is reported as 500 with a fixed message that carries nothing of the
\* remote's message, every other status is reported with the remote's own
\* status code and message.
C25_RemoteErrorsTranslated ==
    [][\A p \in Procs :
          (catches(p) /\ proc'[p].error.status > 0) =>
              (proc'[p].pc = "done" /\ translated(proc'[p]))]_vars

\* The errors that the handlers pass to the error middleware are translated
\* by that rule; an error without a response is reported as 500.
MiddlewareRule ==
    [][\A p \in Procs :
          (catches(p) /\ proc'[p].outcome = "RemoteFailure") =>
              /\ proc'[p].pc = "done"
              /\ proc'[p].error.status > 0 => translated(proc'[p])
              /\ proc'[p].error.status = 0 => proc'[p].code = 500]_vars

\* C25 witness: the customer search of /fetch-customer-detail was answered
\* 400 by the remote and the caller has been answered 404.
C25_WitnessMasked400 ==
    /\ proc[1].op = "fetch" /\ proc[1].pc = "done"
    /\ proc[1].error.status = 400 /\ proc[1].code = 404

\* C25 witness: a 403 of the remote has been reported as 500 with the fixed
\* message.
C25_WitnessForbidden ==
    /\ proc[1].pc = "done" /\ proc[1].outcome = "RemoteFailure"
    /\ proc[1].error.status = 403 /\ proc[1].code = 500
    /\ proc[1].message = "API Authorization Forbidden. Check your API Key."

\* C25 witness: a 409 of the remote on the create of /booking has been
\* reported as 409 with the remote's message.
C25_WitnessPreserved ==
    /\ proc[1].op = "booking" /\ proc[1].pc = "done"
    /\ proc[1].outcome = "RemoteFailure"
    /\ proc[1].error = [status |-> 409, message |-> "remote message"]
    /\ proc[1].code = 409 /\ proc[1].message = "remote message"

\* how far a handler position is from the start of its request
pcRank(pc) ==
    CASE pc = "idle" -> 0
      [] pc \in {"bk_search", "findCustomer", "ca_search", "fc_search",
                  "ic_search", "cr_search"} -> 1
      [] pc \in {"bk_findCustomer", "findAppt", "ic_context"} -> 2
      [] pc \in {"bk_createCustomer", "cn_delete", "up_check", "vf_getVehicle"} -> 3
      [] pc \in {"bk_listVehicles", "up_put"} -> 4
      [] pc = "bk_createVehicle" -> 5
      [] pc = "bk_createAppt" -> 6
      [] OTHER -> 9

\* C26: a failed remote call is neither retried nor masked: whenever a remote
\* call of an operation fails, with an error status or without a response,
\* the operation ends at once with RemoteFailure, never with NotFound or a
\* success, and no handler position is visited twice within a request.
C26_FailureSurfaces ==
    [][\A p \in Procs :
          /\ catches(p) =>
                (proc'[p].pc = "done" /\ proc'[p].outcome = "RemoteFailure")
          /\ (proc'[p] # proc[p] /\ proc[p].pc # "done") =>
                pcRank(proc'[p].pc) > pcRank(proc[p].pc)]_vars

\* No handler position is visited twice within a request, and a failure of
\* any remote call other than the vehicle fetch of /verify-appointment and a
\* 400 on the customer search of /fetch-customer-detail ends the operation
\* with RemoteFailure.
OtherFailuresSurface ==
    [][\A p \in Procs :
          /\ (catches(p) /\ proc[p].pc # "vf_getVehicle"
                /\ ~(proc[p].pc = "fc_search" /\ proc'[p].error.status = 400)) =>
                (proc'[p].pc = "done" /\ proc'[p].outcome = "RemoteFailure")
          /\ (proc'[p] # proc[p] /\ proc[p].pc # "done") =>
                pcRank(proc'[p].pc) > pcRank(proc[p].pc)]_vars

\* C26 witness: the vehicle fetch of /verify-appointment failed with status
\* 500 and the caller has been answered NotFound.
C26_WitnessVehicleFetchMasked ==
    /\ proc[1].op = "verify" /\ proc[1].pc = "done"
    /\ proc[1].error.status = 500
    /\ proc[1].code = 404 /\ proc[1].outcome = "NotFound"

\* C26 witness: the remote was unreachable during the vehicle fetch and the
\* caller has been answered NotFound.
C26_WitnessUnreachableMasked ==
    /\ proc[1].op = "verify" /\ proc[1].pc = "done"
    /\ proc[1].error.status = 0
    /\ proc[1].code = 404 /\ proc[1].outcome = "NotFound"

\* C26 witness: the customer search of /fetch-customer-detail failed with
\* status 500 and the caller has been answered 500.
C26_WitnessSurfaced ==
    /\ proc[1].op = "fetch" /\ proc[1].pc = "done"
    /\ proc[1].error.status = 500
    /\ proc[1].code = 500 /\ proc[1].outcome = "RemoteFailure"

\* the digits of a string, in order
RECURSIVE digitSequence(_)
digitSequence(str) ==
    IF str = <<>> THEN <<>>
    ELSE IF Head(str) \in {"0", "1", "2", "3", "4", "5", "6", "7", "8", "9"}
    THEN <<Head(str)>> \o digitSequence(Tail(str))
    ELSE digitSequence(Tail(str))

\* the three rules on the digit sequence d of a phone string
e164ByRule(phone) ==
    LET d == digitSequence(phone)
    IN IF Len(d) = 10 THEN <<"+", "1">> \o d
       ELSE IF Len(d) = 11 /\ Head(d) = "1" THEN <<"+">> \o d
       ELSE <<"+">> \o d

\* C27: for every non-empty phone string normalizeToE164 returns "+1" and
\* the digits when there are exactly 10 digits, "+" and the digits when
\* there are exactly 11 starting with "1", and "+" and the digits otherwise;
\* it returns a result for every string.
C27_NormalizeByRule ==
    (proc[1].op = "normalize" /\ proc[1].phone # <<>>) =>
        /\ proc[1].pc # "nz_first" =>
              /\ Len(proc[1].result) >= 1
              /\ proc[1].result[1] = e164ByRule(proc[1].phone)
        /\ normalizeToE164(proc[1].phone) = e164ByRule(proc[1].phone)

\* C27 witness: "5551234567" has been normalized to "+15551234567".
C27_Witness ==
    /\ proc[1].op = "normalize" /\ proc[1].pc = "nz_second"
    /\ proc[1].phone = PhoneA
    /\ proc[1].result = << <<"+", "1">> \o PhoneA >>

\* C27 witness: "15551234567" has been normalized to "+15551234567".
C27_WitnessEleven ==
    /\ proc[1].op = "normalize" /\ proc[1].pc = "nz_second"
    /\ proc[1].phone = Phone11
    /\ proc[1].result = << <<"+", "1">> \o PhoneA >>

\* C27 witness: "+44 20 7946 0958" has been normalized to "+442079460958".
C27_WitnessOther ==
    /\ proc[1].op = "normalize" /\ proc[1].pc = "nz_second"
    /\ proc[1].phone = PhoneUK
    /\ proc[1].result = << <<"+", "4", "4", "2", "0", "7", "9", "4", "6",
                             "0", "9", "5", "8">> >>

\* C27 witness: eleven digits that do not start with "1" keep their digits.
C27_WitnessElevenOther ==
    /\ proc[1].op = "normalize" /\ proc[1].pc = "nz_second"
    /\ Len(digitSequence(proc[1].phone)) = 11
    /\ Head(digitSequence(proc[1].phone)) = "5"
    /\ proc[1].result = << <<"+">> \o digitSequence(proc[1].phone) >>

\* C28: normalizeToE164 is idempotent: applied to its own result it returns
\* that result, for strings without digits, with 10 digits, with 11 digits
\* starting with 1 and with any other number of digits.
C28_NormalizeIdempotent ==
    (proc[1].op = "normalize" /\ proc[1].pc = "done") =>
        /\ Len(proc[1].result) = 2
        /\ proc[1].result[2] = proc[1].result[1]

\* C28 witness: a string of nine digits has been normalized twice; the first
\* result has ten digits after its "+".
C28_Witness ==
    /\ proc[1].op = "normalize" /\ proc[1].pc = "done"
    /\ Len(digitSequence(proc[1].phone)) = 9
    /\ Len(proc[1].result) = 2
    /\ Len(proc[1].result[1]) = 10

\* C28 witness: a string without digits has been normalized twice to "+".
C28_WitnessNoDigits ==
    /\ proc[1].op = "normalize" /\ proc[1].pc = "done"
    /\ proc[1].phone # <<>> /\ digitSequence(proc[1].phone) = <<>>
    /\ proc[1].result = << <<"+">>, <<"+">> >>

\* C28 witness: a string of ten digits has been normalized twice.
C28_WitnessTen ==
    /\ proc[1].op = "normalize" /\ proc[1].pc = "done"
    /\ Len(digitSequence(proc[1].phone)) = 10
    /\ Len(proc[1].result) = 2 /\ Len(proc[1].result[2]) = 12

\* C28 witness: the empty string has been normalized twice to itself.
C28_WitnessEmpty ==
    /\ proc[1].op = "normalize" /\ proc[1].pc = "done"
    /\ proc[1].phone = <<>>
    /\ proc[1].result = << <<>>, <<>> >>

\* ------------------------------------------------------------------------
\* the phone key of customer searches and creations
\* ------------------------------------------------------------------------
CustomerSearchPcs ==
    {"fc_search", "bk_findCustomer", "findCustomer", "ic_search", "v2_findCustomer"}

CustomerCreatePcs == {"bk_createCustomer", "v2_createCustomer"}

\* the search answered (no remote failure), and its answer is the one a search
\* under normalizeToE164(phone) gives
searchedByE164(p) ==
    (/\ proc[p].pc \in CustomerSearchPcs
     /\ proc'[p] # proc[p]
     /\ proc'[p].error = NoError)
    => \A byKey \in {customersByPhone(normalizeToE164(proc[p].phone))} :
          IF byKey = {} THEN proc'[p].customerId = 0
          ELSE proc'[p].customerId \in byKey

\* the customer created is stored under normalizeToE164(phone)
createdUnderE164(p) ==
    (proc[p].pc \in CustomerCreatePcs /\ Len(customers') = Len(customers) + 1)
    => customers'[Len(customers')].phone = normalizeToE164(proc[p].phone)

\* C29: every customer search by phone and every customer creation, in any
\* operation, uses normalizeToE164(raw phone) as the key, never the raw
\* string, so the key a customer is created under is the key it is looked up by
C29_PhoneKeyNormalized ==
    [][\A p \in {1} : searchedByE164(p) /\ createdUnderE164(p)]_vars

\* C29: the operations of part_001 (/fetch-customer-detail, /booking,
\* /verify-appointment, /cancel-appointment, /update-appointment,
\* /identify-caller) search and create under the normalized key
NormalizedInFirstVersion ==
    [][\A p \in {1} :
          proc[p].pc \notin {"v2_findCustomer", "v2_createCustomer"}
          => searchedByE164(p) /\ createdUnderE164(p)]_vars

\* C29: /book-appointment stored a customer under the raw string
\* "1 (555) 123-4567" although the same number is on file as +15551234567
C29_WitnessRawKeyDuplicate ==
    /\ proc[1].op = "book-appointment"
    /\ proc[1].phone = PhoneAFormatted
    /\ proc[1].customerCreated
    /\ customers[proc[1].customerId].phone = PhoneAFormatted
    /\ customersByPhone(normalizeToE164(PhoneAFormatted)) # {}

\* C29: /booking created a customer from "1 (555) 123-4567" and stored it
\* under +15551234567
C29_WitnessNormalizedCreate ==
    /\ proc[1].op = "booking"
    /\ proc[1].phone = PhoneAFormatted
    /\ proc[1].customerCreated
    /\ proc[1].pc = "done"
    /\ customers[proc[1].customerId].phone = normalizeToE164(PhoneAFormatted)

\* C29: /identify-caller found, from "1 (555) 123-4567", the customer stored
\* under +15551234567
C29_WitnessIdentified ==
    /\ proc[1].op = "identify"
    /\ proc[1].phone = PhoneAFormatted
    /\ proc[1].pc = "done"
    /\ proc[1].customerId # 0
    /\ customers[proc[1].customerId].phone = normalizeToE164(PhoneAFormatted)

\* C29: /book-appointment, given 5551234567, missed the customer on file
\* under +15551234567 and went on to create another
C29_WitnessRawSearchMisses ==
    /\ proc[1].op = "book-appointment"
    /\ proc[1].pc = "v2_createCustomer"
    /\ customersByPhone(normalizeToE164(proc[1].phone)) # {}

\* ------------------------------------------------------------------------
\* isFuzzyMatch applied to pairs of strings
\* ------------------------------------------------------------------------
MaxLetters == 3
Kia == <<"K", "i", "a">>
Audi == <<"A", "u", "d", "i">>
Camari == <<"C", "a", "m", "a", "r", "i">>
CamryPadded == <<" ", "c", "a", "m", "R", "Y", " ">>

FuzzyStrings ==
    UNION {[1..n -> {"a", "b", "A", " "}] : n \in 0..MaxLetters}
    \cup {Camry, Camary, Camari, CamryPadded, CamryShouted, Civic, Toyota, Kia, Audi}

FuzzyInit ==
    /\ customers = <<>> /\ vehicles = <<>> /\ appts = <<>>
    /\ started = 0
    /\ \E str1 \in FuzzyStrings, str2 \in FuzzyStrings :
          proc = [p \in Procs |->
                    IF p = 1 THEN [Idle EXCEPT !.op = "fuzzy", !.make = str1,
                                               !.model = str2, !.pc = "fz_match"]
                    ELSE Idle]

FuzzyMatch(p) ==
    /\ proc[p].pc = "fz_match"
    /\ proc' = [proc EXCEPT ![p] =
                   [@ EXCEPT !.result = <<isFuzzyMatch(proc[p].make, proc[p].model)>>,
                             !.pc = "done"]]
    /\ UNCHANGED <<store, started>>

FuzzyNext == FuzzyMatch(1)

SpecFuzzy == FuzzyInit /\ [][FuzzyNext]_vars

RECURSIVE editDistance(_, _)
\* the least number of single-character insertions, deletions and
\* substitutions that turn s into t
editDistance(s, t) ==
    IF s = <<>> THEN Len(t)
    ELSE IF t = <<>> THEN Len(s)
    ELSE Min2(editDistance(Tail(s), Tail(t)) + (IF Head(s) = Head(t) THEN 0 ELSE 1),
              Min2(editDistance(Tail(s), t) + 1, editDistance(s, Tail(t)) + 1))

\* s with the letters A-Z replaced by a-z and the spaces at both ends removed
lowerTrimmed(s) ==
    LET lower == [i \in 1..Len(s) |->
                    IF \E k \in 1..26 : UpperAlpha[k] = s[i]
                    THEN LowerAlpha[CHOOSE k \in 1..26 : UpperAlpha[k] = s[i]]
                    ELSE s[i]]
        inner == {i \in 1..Len(s) : lower[i] # " "}
    IN IF inner = {} THEN <<>>
       ELSE SubSeq(lower, CHOOSE i \in inner : \A j \in inner : i <= j,
                          CHOOSE i \in inner : \A j \in inner : i >= j)

fuzzyByRule(a, b) ==
    /\ a # <<>> /\ b # <<>>
    /\ \A s1 \in {lowerTrimmed(a)} : \A s2 \in {lowerTrimmed(b)} :
          \/ s1 = s2
          \/ editDistance(s1, s2) <= Min2(Len(s1), Len(s2)) \div 3

\* C30: isFuzzyMatch(a, b) is true exactly when both inputs are non-null and
\* non-empty and their lower-cased trimmed forms are equal or within
\* floor(min(len) / 3) unit-cost edits of each other; it is false whenever an
\* input is null or empty
C30_FuzzyMatchByRule ==
    \A p \in {1} :
        (proc[p].op = "fuzzy" /\ proc[p].pc = "done")
        => /\ proc[p].result[1] = fuzzyByRule(proc[p].make, proc[p].model)
           /\ (proc[p].make = Missing \/ proc[p].model = Missing)
              => proc[p].result[1] = FALSE

\* C30: ("Camry", "Camary") matches, one edit within the one allowed
C30_Witness ==
    /\ proc[1].op = "fuzzy" /\ proc[1].pc = "done"
    /\ proc[1].make = Camry /\ proc[1].model = Camary
    /\ proc[1].result = <<TRUE>>

\* C30: ("Kia", "Audi") does not match
C30_WitnessKiaAudi ==
    /\ proc[1].op = "fuzzy" /\ proc[1].pc = "done"
    /\ proc[1].make = Kia /\ proc[1].model = Audi
    /\ proc[1].result = <<FALSE>>

\* C30: an empty input does not match, not even another empty input
C30_WitnessEmpty ==
    /\ proc[1].op = "fuzzy" /\ proc[1].pc = "done"
    /\ proc[1].make = Missing /\ proc[1].model = Missing
    /\ proc[1].result = <<FALSE>>

\* C30: ("Camry", "Camari") is two edits apart with one allowed: no match
C30_WitnessTwoEdits ==
    /\ proc[1].op = "fuzzy" /\ proc[1].pc = "done"
    /\ proc[1].make = Camry /\ proc[1].model = Camari
    /\ proc[1].result = <<FALSE>>

\* C30: (" camRY ", "CAMRY ") matches by equality of the normalized forms
C30_WitnessNormalizedEqual ==
    /\ proc[1].op = "fuzzy" /\ proc[1].pc = "done"
    /\ proc[1].make = CamryPadded /\ proc[1].model = CamryShouted
    /\ proc[1].result = <<TRUE>>

\* C30: two strings of spaces are non-empty inputs with equal normalized
\* forms: a match
C30_WitnessBlank ==
    /\ proc[1].op = "fuzzy" /\ proc[1].pc = "done"
    /\ proc[1].make = <<" ">> /\ proc[1].model = <<" ", " ">>
    /\ proc[1].result = <<TRUE>>

\* C30: ("ab", "abA") is one edit apart, the shorter string allows none
C30_WitnessShorterDecides ==
    /\ proc[1].op = "fuzzy" /\ proc[1].pc = "done"
    /\ proc[1].make = <<"a", "b">> /\ proc[1].model = <<"a", "b", "A">>
    /\ proc[1].result = <<FALSE>>

\* C31: isFuzzyMatch(s, s) is true for every non-empty string s, whatever its
\* length, case or surrounding whitespace
C31_FuzzyMatchReflexive ==
    \A p \in {1} :
        (/\ proc[p].op = "fuzzy" /\ proc[p].pc = "done"
         /\ proc[p].make = proc[p].model
         /\ proc[p].make # Missing)
        => proc[p].result = <<TRUE>>

\* C31: " camRY " matches itself
C31_Witness ==
    /\ proc[1].op = "fuzzy" /\ proc[1].pc = "done"
    /\ proc[1].make = CamryPadded /\ proc[1].model = CamryPadded
    /\ proc[1].result = <<TRUE>>

\* C31: a string of one space matches itself
C31_WitnessSpace ==
    /\ proc[1].op = "fuzzy" /\ proc[1].pc = "done"
    /\ proc[1].make = <<" ">> /\ proc[1].model = <<" ">>
    /\ proc[1].result = <<TRUE>>

\* C31: a one-letter string, which allows no edit, matches itself
C31_WitnessOneLetter ==
    /\ proc[1].op = "fuzzy" /\ proc[1].pc = "done"
    /\ proc[1].make = <<"A">> /\ proc[1].model = <<"A">>
    /\ proc[1].result = <<TRUE>>

\* ------------------------------------------------------------------------
\* the overlap test applied to pairs of intervals
\* ------------------------------------------------------------------------
\* instants a quarter of an hour apart: intervals of 15 to 60 minutes, empty
\* and inverted ones
IntervalInstants == {T1000 + 15 * k : k \in 0..4}

\* interval A is [startDate, originalDate), interval B is [newDate, startRange)
OverlapInit ==
    /\ customers = <<>> /\ vehicles = <<>> /\ appts = <<>>
    /\ started = 0
    /\ \E aStart \in IntervalInstants, aEnd \in IntervalInstants,
          bStart \in IntervalInstants, bEnd \in IntervalInstants :
          proc = [p \in Procs |->
                    IF p = 1 THEN [Idle EXCEPT !.op = "overlap", !.startDate = aStart,
                                               !.originalDate = aEnd, !.newDate = bStart,
                                               !.startRange = bEnd, !.pc = "ov_test"]
                    ELSE Idle]

\* apptStart < end && apptEnd > start with A as the appointment and B as the
\* slot, with B as the appointment and A as the slot, and with A as both
OverlapTest(p) ==
    /\ proc[p].pc = "ov_test"
    /\ proc' = [proc EXCEPT ![p] =
          [@ EXCEPT !.result =
                <<isOverlapping(proc[p].startDate, proc[p].originalDate,
                                proc[p].newDate, proc[p].startRange),
                  isOverlapping(proc[p].newDate, proc[p].startRange,
                                proc[p].startDate, proc[p].originalDate),
                  isOverlapping(proc[p].startDate, proc[p].originalDate,
                                proc[p].startDate, proc[p].originalDate)>>,
                    !.pc = "done"]]
    /\ UNCHANGED <<store, started>>

OverlapNext == OverlapTest(1)

SpecOverlap == OverlapInit /\ [][OverlapNext]_vars

\* C32: the overlap test (aStart < bEnd and aEnd > bStart) is symmetric,
\* overlaps(A, B) = overlaps(B, A) for all intervals, and overlaps(A, A) is
\* true for every interval with end > start
C32_OverlapSymmetricReflexive ==
    \A p \in {1} :
        (proc[p].op = "overlap" /\ proc[p].pc = "done")
        => /\ proc[p].result[1] = proc[p].result[2]
           /\ proc[p].originalDate > proc[p].startDate => proc[p].result[3] = TRUE

\* C32: A = [10:00, 10:30) and B = [10:15, 10:45) overlap, tested either way
C32_Witness ==
    /\ proc[1].op = "overlap" /\ proc[1].pc = "done"
    /\ proc[1].startDate = T1000 /\ proc[1].originalDate = T1000 + 30
    /\ proc[1].newDate = T1000 + 15 /\ proc[1].startRange = T1000 + 45
    /\ proc[1].result = <<TRUE, TRUE, TRUE>>

\* C32: back-to-back intervals do not overlap, tested either way
C32_WitnessAdjacent ==
    /\ proc[1].op = "overlap" /\ proc[1].pc = "done"
    /\ proc[1].startDate = T1000 /\ proc[1].originalDate = T1000 + 30
    /\ proc[1].newDate = T1000 + 30 /\ proc[1].startRange = T1000 + 60
    /\ proc[1].result = <<FALSE, FALSE, TRUE>>

\* C32: B inside A, starting later: overlap either way
C32_WitnessContained ==
    /\ proc[1].op = "overlap" /\ proc[1].pc = "done"
    /\ proc[1].startDate = T1000 /\ proc[1].originalDate = T1000 + 60
    /\ proc[1].newDate = T1000 + 15 /\ proc[1].startRange = T1000 + 30
    /\ proc[1].result = <<TRUE, TRUE, TRUE>>

\* C32: an empty interval does not overlap itself
C32_WitnessEmptyInterval ==
    /\ proc[1].op = "overlap" /\ proc[1].pc = "done"
    /\ proc[1].startDate = proc[1].originalDate
    /\ proc[1].result[3] = FALSE

\* ------------------------------------------------------------------------
\* the shop calendar on both sides of the daylight-saving transitions
\* ------------------------------------------------------------------------
\* every second hour from the Friday before to the Tuesday after the
\* transitions of 2025-11-02 and 2026-03-08
CalendarInstants ==
    {daysFromCivil(2025, 10, 31) * MinutesPerDay + 2 * MinutesPerHour * k : k \in 0..48}
    \cup {daysFromCivil(2026, 3, 6) * MinutesPerDay + 2 * MinutesPerHour * k : k \in 0..48}

CalendarInit ==
    /\ customers = <<>> /\ vehicles = <<>> /\ appts = <<>>
    /\ started = 0
    /\ \E startRange \in CalendarInstants :
          proc = [p \in Procs |->
                    IF p = 1 THEN [Idle EXCEPT !.op = "check", !.startRange = startRange,
                                               !.pc = "ca_shopDate"]
                    ELSE Idle]

\* STEP 1 of /check-availability: the input date broken down into shop time
CheckAvailabilityShopDate(p) ==
    /\ proc[p].pc = "ca_shopDate"
    /\ proc' = [proc EXCEPT ![p] =
                   [@ EXCEPT !.result = <<getShopTimeDetails(proc[p].startRange)>>,
                             !.pc = "ca_search"]]
    /\ UNCHANGED <<store, started>>

CalendarNext == CheckAvailabilityShopDate(1) \/ CheckAvailabilitySearch(1)

SpecCalendar == CalendarInit /\ [][CalendarNext]_vars

\* daylight time in force, from the timezone database: 2025-03-09T10:00Z to
\* 2025-11-02T09:00Z and 2026-03-08T10:00Z to 2026-11-01T09:00Z
daylightTime(t) ==
    \/ /\ t >= daysFromCivil(2025, 3, 9) * 1440 + 600
       /\ t < daysFromCivil(2025, 11, 2) * 1440 + 540
    \/ /\ t >= daysFromCivil(2026, 3, 8) * 1440 + 600
       /\ t < daysFromCivil(2026, 11, 1) * 1440 + 540

\* minutes since the epoch on the shop's wall clock
wallClock(t) == IF daylightTime(t) THEN t - 420 ELSE t - 480

\* the record is the wall-clock reading of instant t
readsWallClock(details, t) ==
    /\ daysFromCivil(details.year, details.month, details.day) = wallClock(t) \div 1440
    /\ details.month \in 1..12 /\ details.day \in 1..31
    /\ details.weekday = ((wallClock(t) \div 1440) + 4) % 7
    /\ details.hour = (wallClock(t) % 1440) \div 60
    /\ details.minute = wallClock(t) % 60

\* the slot is inside the business hours of its wall-clock weekday, on the
\* wall-clock date of the reference
wallClockOpen(t, startRange) ==
    LET weekday == ((wallClock(t) \div 1440) + 4) % 7
        minuteOfDay == wallClock(t) % 1440
    IN /\ wallClock(t) \div 1440 = wallClock(startRange) \div 1440
       /\ \/ weekday \in 1..5 /\ minuteOfDay >= 480 /\ minuteOfDay < 990
          \/ weekday = 6 /\ minuteOfDay >= 540 /\ minuteOfDay < 660

\* C33: getShopTimeDetails(instant) is the year, month, day, weekday, hour and
\* minute of the instant in America/Los_Angeles under the offset in force at
\* that instant (UTC-8 standard, UTC-7 daylight), and the business-hours and
\* target-date tests of /check-availability go by these shop-local values,
\* not by the UTC weekday or hour
C33_ShopCalendarFollowsTimezone ==
    \A p \in {1} :
        /\ (proc[p].op = "check" /\ proc[p].result # <<>>)
           => readsWallClock(proc[p].result[1], proc[p].startRange)
        /\ (proc[p].op = "check" /\ proc[p].pc = "done" /\ proc[p].code = 200)
           => \A k \in DOMAIN proc[p].slots :
                 wallClockOpen(proc[p].slots[k], proc[p].startRange)

\* C33: Friday 2025-10-31, daylight time: 15:00Z is 08:00 in the shop and is
\* offered
C33_Witness ==
    /\ proc[1].op = "check" /\ proc[1].pc = "done"
    /\ proc[1].startRange = daysFromCivil(2025, 10, 31) * 1440 + 18 * 60
    /\ proc[1].result[1].hour = 11
    /\ proc[1].slots # <<>>
    /\ proc[1].slots[1] = daysFromCivil(2025, 10, 31) * 1440 + 15 * 60

\* C33: Monday 2025-11-03, standard time: the same 18:00Z is 10:00 in the
\* shop, the first slot is 16:00Z and the last one, 00:00Z of the UTC Tuesday,
\* is 16:00 of the shop's Monday
C33_WitnessStandardTime ==
    /\ proc[1].op = "check" /\ proc[1].pc = "done"
    /\ proc[1].startRange = daysFromCivil(2025, 11, 3) * 1440 + 18 * 60
    /\ proc[1].result[1].hour = 10
    /\ proc[1].slots # <<>>
    /\ proc[1].slots[1] = daysFromCivil(2025, 11, 3) * 1440 + 16 * 60
    /\ proc[1].slots[Len(proc[1].slots)] = daysFromCivil(2025, 11, 4) * 1440

\* C33: 2026-03-08T10:00Z, the first instant of daylight time, reads 03:00 of
\* the Sunday
C33_WitnessSpringForward ==
    /\ proc[1].op = "check" /\ proc[1].result # <<>>
    /\ proc[1].startRange = daysFromCivil(2026, 3, 8) * 1440 + 10 * 60
    /\ proc[1].result[1].hour = 3 /\ proc[1].result[1].weekday = 0

\* C33: 2026-03-09T02:00Z is 19:00 of the shop's Sunday, on the UTC Monday
C33_WitnessShopSunday ==
    /\ proc[1].op = "check" /\ proc[1].pc = "done" /\ proc[1].code = 200
    /\ proc[1].startRange = daysFromCivil(2026, 3, 9) * 1440 + 2 * 60
    /\ proc[1].result[1].weekday = 0 /\ proc[1].result[1].hour = 19
    /\ proc[1].slots = <<>>

\* the appointments of the store whose interval the step wrote: created, or
\* given another start or end (a deleted appointment has no interval)
intervalsWritten ==
    {a \in DOMAIN appts' :
        /\ appts'[a].status # "Deleted"
        /\ \/ a \notin DOMAIN appts
           \/ appts'[a].startDate # appts[a].startDate
           \/ appts'[a].endDate # appts[a].endDate}

\* C34: every interval written by /booking (create) and /update-appointment
\* (update) starts at the requested instant and ends 30 minutes later, hence
\* end > start; the request carries no duration
C34_FixedDurationWritten ==
    [][\A p \in {1} : \A a \in intervalsWritten :
          /\ proc[p].pc \in {"bk_createAppt", "up_put"}
          /\ appts'[a].startDate =
                 (IF proc[p].pc = "bk_createAppt" THEN parseDate(proc[p].startDate)
                  ELSE parseDate(proc[p].newDate))
          /\ appts'[a].startDate >= 0
          /\ appts'[a].endDate = appts'[a].startDate + 30
          /\ appts'[a].endDate > appts'[a].startDate]_vars

\* C34: /booking answered 201 and the appointment it created is 30 minutes long
C34_Witness ==
    /\ proc[1].op = "booking" /\ proc[1].pc = "done" /\ proc[1].code = 201
    /\ proc[1].apptId \in DOMAIN appts
    /\ appts[proc[1].apptId].startDate = proc[1].startDate
    /\ appts[proc[1].apptId].endDate = proc[1].startDate + 30

\* C34: /update-appointment answered 200 and the appointment moved is 30
\* minutes long at its new start
C34_WitnessUpdated ==
    /\ proc[1].op = "update" /\ proc[1].pc = "done" /\ proc[1].code = 200
    /\ proc[1].newDate # proc[1].originalDate
    /\ appts[proc[1].apptId].startDate = proc[1].newDate
    /\ appts[proc[1].apptId].endDate = proc[1].newDate + 30

\* a range-mode /check-availability request has been answered with its slots
rangeAnswered(r) == r.op = "check-range" /\ r.pc = "done" /\ r.code = 200

\* C35: range-mode /check-availability returns no slot [s, s + 30min) that
\* overlaps a non-Canceled appointment of the location in the store,
\* appointments that begin before startRange or end after endRange included,
\* and every returned slot is on a shop-local Monday to Friday at an hour in
\* [9, 17)
C35_RangeSlotsFree ==
    rangeAnswered(proc[1]) =>
        \A k \in DOMAIN proc[1].slots :
            \A s \in {proc[1].slots[k]} :
                /\ ~\E a \in activeAtLocation(appts) :
                       appts[a].startDate < s + 30 /\ appts[a].endDate > s
                /\ localWeekday(s) \in 1..5
                /\ localMinuteOfDay(s) >= 9 * 60 /\ localMinuteOfDay(s) < 17 * 60

\* C35: the part that holds: every returned slot is inside the range, on a
\* weekday at an hour in [9, 17), and overlaps no appointment that lies
\* wholly inside [startRange, endRange]
RangeSlotsFreeOfFetched ==
    rangeAnswered(proc[1]) =>
        \A k \in DOMAIN proc[1].slots :
            \A s \in {proc[1].slots[k]} :
                /\ s >= proc[1].startRange /\ s < proc[1].endRange
                /\ localWeekday(s) \in 1..5
                /\ localMinuteOfDay(s) >= 9 * 60 /\ localMinuteOfDay(s) < 17 * 60
                /\ ~\E a \in activeAtLocation(appts) :
                       /\ appts[a].startDate >= proc[1].startRange
                       /\ appts[a].endDate <= proc[1].endRange
                       /\ appts[a].startDate < s + 30 /\ appts[a].endDate > s

\* C35: the range begins at 10:00, the appointment 09:45-10:15 began before
\* it, and the slot 10:00 is returned
C35_WitnessBeforeRange ==
    /\ rangeAnswered(proc[1])
    /\ proc[1].startRange = T1000
    /\ proc[1].slots # <<>> /\ proc[1].slots[1] = T1000
    /\ \E a \in activeAtLocation(appts) :
          appts[a].startDate = T1000 - 15 /\ appts[a].endDate = T1000 + 15

\* C35: the range ends at 11:30, the appointment 11:15-11:45 ends after it,
\* and the slot 11:00 is returned
C35_WitnessAfterRange ==
    /\ rangeAnswered(proc[1])
    /\ proc[1].startRange = T1000 /\ proc[1].endRange = T1000 + 90
    /\ \E k \in DOMAIN proc[1].slots : proc[1].slots[k] = T1000 + 60
    /\ \E a \in activeAtLocation(appts) :
          appts[a].startDate = T1000 + 75 /\ appts[a].endDate = T1000 + 105

\* C35: an appointment inside the range withholds its slot: 10:30-11:00 is
\* taken, 10:00 is returned and 10:30 is not
C35_WitnessWithheld ==
    /\ rangeAnswered(proc[1])
    /\ proc[1].startRange = T1000 /\ proc[1].endRange = T1000 + 90
    /\ \E a \in activeAtLocation(appts) :
          appts[a].startDate = T1000 + 30 /\ appts[a].endDate = T1000 + 60
    /\ proc[1].slots[1] = T1000
    /\ \A k \in DOMAIN proc[1].slots : proc[1].slots[k] # T1000 + 30

\* C35: a range on Saturday is answered with no slot
C35_WitnessSaturday ==
    /\ rangeAnswered(proc[1])
    /\ proc[1].startRange = TSat1000 /\ proc[1].endRange = TSat1000 + 60
    /\ proc[1].result = <<2>>
    /\ proc[1].slots = <<>>

\* C36: /identify-caller looks the customer up first and issues the orders
\* query and the future-appointments query only if one was found (otherwise
\* it answers found=false having issued neither); the two queries complete in
\* either order and the response is the same for both orders; if either
\* query fails the request ends in a failure, not in a partial result
C36_IdentifyFanOut ==
    /\ [](\A p \in {1} : proc[p].op = "identify" =>
            /\ (proc[p].pending # {} \/ proc[p].result # <<>>) => proc[p].customerId # 0
            /\ (proc[p].pc = "done" /\ proc[p].code = 200 /\ proc[p].customerId = 0)
               => (proc[p].outcome = "NotFound" /\ proc[p].result = <<>>
                   /\ proc[p].pending = {})
            /\ (proc[p].pc = "done" /\ proc[p].code = 200 /\ proc[p].customerId # 0)
               => /\ proc[p].pending = {}
                  /\ proc[p].result \in {<<"orders", "appointments">>,
                                          <<"appointments", "orders">>}
                  /\ proc[p].orderId = latestOrder(proc[p].customerId)
                  /\ \A first \in {futureAppointments(proc[p].customerId, proc[p].now)} :
                        IF first = {} THEN proc[p].apptId = 0
                        ELSE proc[p].apptId \in first)
    /\ [][\A p \in {1} :
            (proc[p].op = "identify" /\ proc[p].pc \in {"ic_search", "ic_context"}
             /\ proc'[p].error # NoError)
            => (proc'[p].pc = "done" /\ proc'[p].outcome = "RemoteFailure"
                /\ proc'[p].code >= 400)]_vars

\* C36: found, the orders query answered first, and the response names the
\* earlier of the customer's two future appointments
C36_Witness ==
    /\ proc[1].op = "identify" /\ proc[1].pc = "done" /\ proc[1].code = 200
    /\ proc[1].result = <<"orders", "appointments">>
    /\ proc[1].orderId = 1
    /\ proc[1].apptId = 2
    /\ Cardinality(appointmentsOfCustomer(proc[1].customerId)) = 2

\* C36: the same response with the appointments query answered first
C36_WitnessAppointmentsFirst ==
    /\ proc[1].op = "identify" /\ proc[1].pc = "done" /\ proc[1].code = 200
    /\ proc[1].result = <<"appointments", "orders">>
    /\ proc[1].orderId = 1
    /\ proc[1].apptId = 2
    /\ Cardinality(appointmentsOfCustomer(proc[1].customerId)) = 2

\* C36: no customer on file: found=false and no query issued
C36_WitnessNotFound ==
    /\ proc[1].op = "identify" /\ proc[1].pc = "done" /\ proc[1].code = 200
    /\ proc[1].outcome = "NotFound"
    /\ proc[1].customerId = 0 /\ proc[1].result = <<>>

\* C36: the orders query answered, the appointments query failed: the request
\* failed
C36_WitnessSecondQueryFailed ==
    /\ proc[1].op = "identify" /\ proc[1].pc = "done"
    /\ proc[1].outcome = "RemoteFailure"
    /\ proc[1].result = <<"orders">> /\ proc[1].pending = {"appointments"}

\* C36: a query failed before either answered
C36_WitnessFailedEarly ==
    /\ proc[1].op = "identify" /\ proc[1].pc = "done"
    /\ proc[1].outcome = "RemoteFailure"
    /\ proc[1].result = <<>> /\ proc[1].pending = {"orders", "appointments"}

\* the store holds core-created data: every non-Canceled appointment of the
\* location is 30 minutes long and no two of them overlap
coreCreated == allThirtyMinutes(appts) /\ noDoubleBooking(appts)

\* the appointments of the store that overlap [s, s + 30min)
overlapping(s) ==
    {a \in activeAtLocation(appts) :
        appts[a].startDate < s + 30 /\ appts[a].endDate > s}

\* the candidate start of the overlap search the handler is about to run
candidateStart(r) ==
    IF r.pc = "bk_search" THEN parseDate(r.startDate) ELSE parseDate(r.newDate)

\* C37: with every non-Canceled appointment of the location 30 minutes long
\* and no two overlapping, every appointment that overlaps [s, s + 30min)
\* starts inside the searched window [s - 24h, s + 24h], at most 97
\* appointments start in that window, fewer than the page limit of 100, and
\* so the overlap check of /booking and checkSlotAvailability misses no
\* conflicting appointment
C37_WindowAndLimitSuffice ==
    /\ [](\A p \in {1} :
            (proc[p].pc \in {"bk_search", "up_check"} /\ coreCreated)
            => \A s \in {candidateStart(proc[p])} :
               \A searched \in {appointmentsInWindow(s - 24 * 60, s + 24 * 60)} :
                  /\ overlapping(s) \subseteq searched
                  /\ Cardinality(searched) <= 97
                  /\ 97 < BookingSearchLimit
                  /\ Pages(searched, BookingSearchLimit) = {searched})
    /\ [][\A p \in {1} :
            (/\ proc[p].pc \in {"bk_search", "up_check"}
             /\ proc'[p].error = NoError /\ proc'[p] # proc[p]
             /\ coreCreated)
            => \A s \in {candidateStart(proc[p])} :
                  (proc'[p].pc = "done" /\ proc'[p].code = 409)
                  <=> (overlapping(s) \ (IF proc[p].pc = "up_check"
                                         THEN {proc[p].apptId} ELSE {}) # {})]_vars

\* C37: a book with 97 appointments starting in [s - 24h, s + 24h], the
\* first at s - 24h and the last at s + 24h, one of them at s: /booking
\* refuses s
C37_Witness ==
    /\ proc[1].op = "booking" /\ proc[1].pc = "done" /\ proc[1].code = 409
    /\ proc[1].startDate = T1000
    /\ Len(appts) = 99 /\ coreCreated
    /\ Cardinality(appointmentsInWindow(T1000 - 24 * 60, T1000 + 24 * 60)) = 97
    /\ \E a, b \in DOMAIN appts : /\ appts[a].startDate = T1000 - 24 * 60
                                   /\ appts[b].startDate = T1000 + 24 * 60

\* C37: in a full book a quarter of an hour off the grid the candidate
\* overlaps two appointments, both found
C37_WitnessTwoConflicts ==
    /\ proc[1].op = "booking" /\ proc[1].pc = "done" /\ proc[1].code = 409
    /\ proc[1].startDate = T1000
    /\ Len(appts) = 99 /\ coreCreated
    /\ Cardinality(overlapping(T1000)) = 2

\* C37: the free half hour of a full book is found free
C37_WitnessFree ==
    /\ proc[1].op = "booking" /\ proc[1].pc = "bk_findCustomer"
    /\ proc[1].startDate = T1000
    /\ Len(appts) = 99 /\ coreCreated
    /\ overlapping(T1000) = {}

\* C37: /update-appointment moved the caller's appointment into the free
\* half hour of a full book
C37_WitnessMoved ==
    /\ proc[1].op = "update" /\ proc[1].pc = "done" /\ proc[1].code = 200
    /\ proc[1].newDate = T1000
    /\ Len(appts) = 99 /\ coreCreated
    /\ appts[proc[1].apptId].startDate = T1000

\* C37: /update-appointment refused to move the caller's appointment onto
\* another one in a full book
C37_WitnessMoveRefused ==
    /\ proc[1].op = "update" /\ proc[1].pc = "done" /\ proc[1].code = 409
    /\ Len(appts) = 99 /\ coreCreated

BookingChainPcs ==
    {"bk_findCustomer", "bk_createCustomer", "bk_listVehicles", "bk_createVehicle",
     "bk_createAppt"}

\* the step is the handler's own, not the failure of a remote call
answered(p) == proc'[p] # proc[p] /\ proc'[p].error = NoError

\* C38: /booking and /update-appointment accept on input validity and the
\* overlap check alone: a request with its fields present and a parseable
\* start goes to the overlap search whatever the shop-local weekday or hour
\* of the start and whatever its relation to now, passes it when no
\* non-Canceled appointment overlaps, and is refused by no later step; so
\* every slot /check-availability offers is a start the commit path accepts
\* when nothing overlaps it
C38_AcceptanceIgnoresCalendar ==
    /\ [][\A p \in {1} :
            /\ (proc[p].pc = "idle" /\ proc'[p].op = "booking"
                /\ bookingInputValid(proc'[p]))
               => proc'[p].pc = "bk_search"
            /\ (proc[p].pc = "bk_search" /\ answered(p)
                /\ overlapping(parseDate(proc[p].startDate)) = {})
               => proc'[p].pc = "bk_findCustomer"
            /\ (proc[p].pc \in BookingChainPcs /\ answered(p))
               => \/ proc'[p].pc \in BookingChainPcs
                  \/ proc'[p].pc = "done" /\ proc'[p].code = 201
            /\ (proc[p].pc = "up_check" /\ answered(p)
                /\ overlapping(parseDate(proc[p].newDate)) \ {proc[p].apptId} = {})
               => proc'[p].pc = "up_put"
            /\ (proc[p].pc = "up_put" /\ answered(p))
               => (proc'[p].pc = "done" /\ proc'[p].code = 200)]_vars
    /\ [](slotsReturned(proc[1]) =>
            \A t \in Range(proc[1].slots) :
                (t >= 0 /\ overlapping(t) = {}) => commitConflicts(t) = {})

\* C38: a booking for Sunday 10:00 shop time was accepted
C38_Witness ==
    /\ proc[1].op = "booking" /\ proc[1].pc = "done" /\ proc[1].code = 201
    /\ proc[1].startDate = RefSunday
    /\ localWeekday(proc[1].startDate) = 0
    /\ appts[proc[1].apptId].startDate = RefSunday

\* C38: a booking for Tuesday 22:00 shop time was accepted
C38_WitnessNight ==
    /\ proc[1].op = "booking" /\ proc[1].pc = "done" /\ proc[1].code = 201
    /\ localMinuteOfDay(proc[1].startDate) = 22 * 60
    /\ appts[proc[1].apptId].startDate = proc[1].startDate

\* C38: a booking for 10:15, off the half-hour grid, was accepted
C38_WitnessOffGrid ==
    /\ proc[1].op = "booking" /\ proc[1].pc = "done" /\ proc[1].code = 201
    /\ proc[1].startDate % 30 = 15
    /\ appts[proc[1].apptId].startDate = proc[1].startDate

\* C38: an appointment was moved to Sunday 10:00
C38_WitnessMovedToSunday ==
    /\ proc[1].op = "update" /\ proc[1].pc = "done" /\ proc[1].code = 200
    /\ proc[1].newDate = RefSunday
    /\ appts[proc[1].apptId].startDate = RefSunday

\* C38: /check-availability, asked on Friday 2025-11-28, has offered slots;
\* a booking for Tuesday 2025-11-25, before that Friday, is accepted by the
\* same service
C38_WitnessPast ==
    /\ proc[1].op = "booking" /\ proc[1].pc = "done" /\ proc[1].code = 201
    /\ \A currentNow \in NowInputs : proc[1].startDate < currentNow
    /\ appts[proc[1].apptId].startDate = proc[1].startDate

\* C38: a slot offered by /check-availability with nothing overlapping it
C38_WitnessOffered ==
    /\ slotsReturned(proc[1])
    /\ \E t \in Range(proc[1].slots) : overlapping(t) = {} /\ commitConflicts(t) = {}

\* ------------------------------------------------------------------------
\* The two slot scans: how many candidates each visits, and that each ends
\* ------------------------------------------------------------------------
\* the night the shop zone sets its clocks back, 2025-11-02 09:00Z
RefFallBack == daysFromCivil(2025, 11, 2) * MinutesPerDay + 9 * MinutesPerHour

\* the night the shop zone sets its clocks forward, 2026-03-08 10:00Z
RefSpringForward == daysFromCivil(2026, 3, 8) * MinutesPerDay + 10 * MinutesPerHour

\* one caller asking for the free slots of a day, the reference instant at
\* any time of the day: midnight UTC, a minute before it, off the grid
ScanDayRequests ==
    [counted |-> FALSE, malformed |-> TRUE, phones |-> {PhoneA},
     dates |-> {T1000},
     ranges |-> ReferenceInputs \cup
                {T1000 + 15, T1000 - 18 * MinutesPerHour,
                 T1000 + 6 * MinutesPerHour - 1, RefFallBack, RefSpringForward},
     models |-> ModelInputs]

ScanNext ==
    \/ StartCheckAvailability(1, ScanDayRequests)
    \/ CheckAvailabilitySearch(1)
    \/ StartRangeAvailability(1, RangeRequests)
    \/ RangeAvailabilitySearch(1)
    \/ RemoteFail(1)
    \/ Finish(1)

SpecScan == RangeInit /\ [][ScanNext]_vars

\* the scan of request r has run and the response carries its slots
scanned(r, op) == r.op = op /\ r.pc = "done" /\ r.code = 200

\* 30-minute steps of [startRange, endRange), a last partial step included
stepsOf(startRange, endRange) ==
    IF endRange <= startRange THEN 0 ELSE (endRange - startRange + 29) \div 30

C39_WitnessFallBack ==
    /\ scanned(proc[1], "check")
    /\ proc[1].startRange = RefFallBack
    /\ proc[1].visited = 72

\* C39: a range whose end lies before its start was answered without a
\* candidate visited
C39_WitnessEmptyRange ==
    /\ scanned(proc[1], "check-range")
    /\ proc[1].endRange < proc[1].startRange
    /\ proc[1].visited = 0 /\ proc[1].slots = <<>>

\* C39: a range whose end is its start
C39_WitnessEqualEnds ==
    /\ scanned(proc[1], "check-range")
    /\ proc[1].endRange = proc[1].startRange
    /\ proc[1].visited = 0

\* C39: eight hours from 10:00, sixteen candidates
C39_WitnessRange ==
    /\ scanned(proc[1], "check-range")
    /\ proc[1].startRange = T1000
    /\ proc[1].endRange = T1000 + 8 * MinutesPerHour
    /\ proc[1].visited = 16

\* C39: 75 minutes from 10:15, three candidates, the last one 15 minutes
\* before the end
C39_WitnessPartialStep ==
    /\ scanned(proc[1], "check-range")
    /\ proc[1].startRange = T1000 + 15
    /\ proc[1].endRange = T1000 + 90
    /\ proc[1].visited = 3

====
